---------------------------- MODULE Spec2Model ----------------------------
(***************************************************************************)
(* A model of the fund-agent analytics code.                               *)
(*                                                                         *)
(*   tools/tax_engine.py      compute_tax_liability, classify_holding,     *)
(*                            compute_equity_tax                           *)
(*   tools/overlap_engine.py  compute_pairwise_overlap                     *)
(*   tools/metrics_engine.py  compute_all_metrics, compute_cagr,           *)
(*                            compute_max_drawdown, compute_beta,          *)
(*                            compute_sortino                              *)
(*   tools/nav_fetcher.py     run                                          *)
(*                                                                         *)
(* Each component has its own specification (SpecTax, SpecClassify,        *)
(* SpecEquityTax, SpecOverlap, ...); while one component runs, the         *)
(* variables of the others stay at their idle values.                      *)
(*                                                                         *)
(* Numbers.  Units, NAVs and rupee amounts are integers.  The two tax      *)
(* rates are the decimal fractions 0.125 and 0.20 of the source, kept in   *)
(* thousandths (125 and 200); a tax amount is kept in thousandths of a     *)
(* rupee, so that amount * rate is exact: tax = amount * (rate * 1000).    *)
(***************************************************************************)
EXTENDS Integers, Sequences, FiniteSets, TLC

VARIABLES
    \* ---- tax_engine.compute_tax_liability
    transactions,     \* the transaction list passed in (cams_parser dicts)
    tax_records,      \* the list the call returned
    tax_pc,           \* "start" | "returned" | "raised"
    \* ---- tax_engine.classify_holding
    purchase_date,    \* [year, month, day]
    redemption_date,  \* [year, month, day]
    elapsed,          \* calendar days stepped from purchase_date to redemption_date
    is_equity,        \* BOOLEAN
    gain_type,        \* "" before the call, then "LTCG" | "STCG"
    cls_pc,           \* "input" | "done"
    \* ---- tax_engine.compute_equity_tax
    ltcg_total,       \* rupees
    stcg_total,       \* rupees
    equity_tax,       \* << >> before the call, then << the returned dict >>
    eq_pc,            \* "input" | "done"
    \* ---- overlap_engine.compute_pairwise_overlap
    composition_records, \* the holding dicts passed in (scheme_code, isin, weight_pct)
    code_kind,        \* "str" | "int": the Python type of the scheme_code values
    overlap_records,  \* the list the call returned
    ov_pc,            \* "start" | "returned" | "raised"
    \* ---- metrics_engine.compute_all_metrics
    met_transactions, \* the transaction list passed in
    met_nav_records,  \* the NAV records passed in (scheme_name, nav, nav_date)
    metrics,          \* the list the call returned
    met_pc,           \* "start" | "returned"
    \* ---- metrics_engine.compute_cagr
    nav_start,
    nav_end,
    years,
    cagr,             \* << >> before the call and after a raise, else << the value >>
    cagr_pc,          \* "input" | "returned" | the name of the exception raised
    \* ---- metrics_engine.compute_max_drawdown
    nav_series,       \* the prices, a sequence
    max_drawdown,     \* << >> before the call, then << [num, den] >>: num / den
    dd_pc,            \* "input" | "returned"
    \* ---- metrics_engine.compute_beta
    fund_returns,
    benchmark_returns,
    beta,             \* << >> before the call, then << the value >>
    beta_pc,          \* "input" | "returned" | the name of the exception raised
    \* ---- metrics_engine.compute_sortino
    returns,
    risk_free_rate,
    periods_per_year,
    sortino,          \* << >> before the call, then << the value >>
    so_pc,            \* "input" | "returned"
    \* ---- nav_fetcher.run
    amfi_records,     \* what _parse_amfi_nav returned for the response
    portfolio_scheme_codes, \* config.portfolio_scheme_codes
    sheet_records,    \* << >>, then << the records passed to append_timeseries >>
    context,          \* the shared context dict, a function from keys
    nav_pc,            \* "start" | "returned"
    \* ---- cams_parser.run
    cams_files,  \* what parsing each file found in data/cams gives, in parse order
    cams_api,  \* how far the Sheets API answers during the call
    cams_sheet,  \* the rows of every tab of the spreadsheet
    cams_context,  \* the context dict, a sequence of <<key, value>> items
    cams_result,  \* << >>, then << the result dict >>
    cams_pc,  \* "start" | "returned" | "raised"
    \* ---- sheets_writer.append_timeseries
    tab,  \* the rows of the tab, top to bottom
    calls,  \* one entry per append_timeseries call made so far
    sh_pc,  \* "ready"
    \* ---- post_tool.log_tool_run
    log_tab,  \* the rows of the Run_Log tab
    log_tool_name,  \* argument tool_name
    log_result,  \* argument result, a dict in insertion order
    log_api,  \* how far the Sheets API answers during the call
    log_warned,  \* whether append_timeseries raised and the warning was logged
    log_pc,  \* "start" | "returned" | "raised" | "continued"
    \* ---- cams_parser._normalise_txn_type, as called by the parsers
    txn_type_raw,  \* the raw transaction type of one record or line, a sequence of characters
    txn_source,  \* "json" (a dtTrxnResult record) | "pdf" (the type group of a matched line)
    parsed_txn_type,  \* << >>, then << the txn_type of the appended transaction >>
    tt_pc,  \* "input" | "appended" | "skipped"
    \* ---- main.run_workflow and the tools' run functions
    wf_env,  \* what the outside world answers during this execution
    wf_context,  \* the context dict shared by the tools
    wf_sheet,  \* the rows of every tab of the spreadsheet
    wf_results,  \* results, keyed by tool name
    wf_calls,  \* the tools whose run was invoked, in order
    wf_passed,  \* the transaction lists handed to the compute functions
    wf_summary,  \* what run_workflow returned
    wf_pc  \* "between", "in_tool", "returned", "raised" or "alone"

taxVars == <<transactions, tax_records, tax_pc>>
clsVars == <<purchase_date, redemption_date, elapsed, is_equity, gain_type, cls_pc>>
eqVars  == <<ltcg_total, stcg_total, equity_tax, eq_pc>>
ovVars  == <<composition_records, code_kind, overlap_records, ov_pc>>
metVars == <<met_transactions, met_nav_records, metrics, met_pc>>
cagrVars == <<nav_start, nav_end, years, cagr, cagr_pc>>
ddVars  == <<nav_series, max_drawdown, dd_pc>>
betaVars == <<fund_returns, benchmark_returns, beta, beta_pc>>
soVars  == <<returns, risk_free_rate, periods_per_year, sortino, so_pc>>
navVars == <<amfi_records, portfolio_scheme_codes, sheet_records, context, nav_pc>>
camsVars == <<cams_files, cams_api, cams_sheet, cams_context, cams_result, cams_pc>>
sheetVars == <<tab, calls, sh_pc>>
logVars == <<log_tab, log_tool_name, log_result, log_api, log_warned, log_pc>>
ttVars == <<txn_type_raw, txn_source, parsed_txn_type, tt_pc>>
wfVars == <<wf_env, wf_context, wf_sheet, wf_results, wf_calls, wf_passed, wf_summary, wf_pc>>
vars    == <<taxVars, clsVars, eqVars, ovVars, metVars, cagrVars, ddVars, betaVars,
             soVars, navVars,
             camsVars,
             sheetVars,
             logVars,
             ttVars,
             wfVars>>

Max(a, b) == IF a >= b THEN a ELSE b
Abs(a)    == IF a >= 0 THEN a ELSE -a

(***************************************************************************)
(* Idle values: a component that is not the one under check.               *)
(***************************************************************************)
IdleTax ==
    /\ transactions = << >>
    /\ tax_records = << >>
    /\ tax_pc = "idle"

IdleClassify ==
    /\ purchase_date = [year |-> 1, month |-> 1, day |-> 1]
    /\ redemption_date = [year |-> 1, month |-> 1, day |-> 1]
    /\ elapsed = 0
    /\ is_equity = FALSE
    /\ gain_type = ""
    /\ cls_pc = "idle"

IdleEquityTax ==
    /\ ltcg_total = 0
    /\ stcg_total = 0
    /\ equity_tax = << >>
    /\ eq_pc = "idle"

IdleOverlap ==
    /\ composition_records = << >>
    /\ code_kind = "str"
    /\ overlap_records = << >>
    /\ ov_pc = "idle"

IdleMetrics ==
    /\ met_transactions = << >>
    /\ met_nav_records = << >>
    /\ metrics = << >>
    /\ met_pc = "idle"

IdleCagr ==
    /\ nav_start = 1
    /\ nav_end = 1
    /\ years = 1
    /\ cagr = << >>
    /\ cagr_pc = "idle"

IdleDrawdown ==
    /\ nav_series = << >>
    /\ max_drawdown = << >>
    /\ dd_pc = "idle"

IdleBeta ==
    /\ fund_returns = << >>
    /\ benchmark_returns = << >>
    /\ beta = << >>
    /\ beta_pc = "idle"

IdleSortino ==
    /\ returns = << >>
    /\ risk_free_rate = 0
    /\ periods_per_year = 1
    /\ sortino = << >>
    /\ so_pc = "idle"

IdleNav ==
    /\ amfi_records = << >>
    /\ portfolio_scheme_codes = {}
    /\ sheet_records = << >>
    /\ context = << >>
    /\ nav_pc = "idle"

IdleCams ==
    /\ cams_files = << >>
    /\ cams_api = "ok"
    /\ cams_sheet = << >>
    /\ cams_context = << >>
    /\ cams_result = << >>
    /\ cams_pc = "idle"

IdleSheets ==
    /\ tab = << >>
    /\ calls = << >>
    /\ sh_pc = "idle"

IdleRunLog ==
    /\ log_tab = << >>
    /\ log_tool_name = ""
    /\ log_result = << >>
    /\ log_api = "ok"
    /\ log_warned = FALSE
    /\ log_pc = "idle"

IdleTxnType ==
    /\ txn_type_raw = << >>
    /\ txn_source = "json"
    /\ parsed_txn_type = << >>
    /\ tt_pc = "idle"

IdleWorkflow ==
    /\ wf_env = [tool |-> "", nav_ok |-> FALSE, lines |-> << >>, files |-> << >>, api |-> "ok", llm_ok |-> FALSE]
    /\ wf_context = << >>
    /\ wf_sheet = << >>
    /\ wf_results = << >>
    /\ wf_calls = << >>
    /\ wf_passed = << >>
    /\ wf_summary = << >>
    /\ wf_pc = "idle"

\* Every component but c is idle, and stays as it is.
OthersIdle(c) ==
    /\ IF c # "tax" THEN IdleTax ELSE TRUE
    /\ IF c # "classify" THEN IdleClassify ELSE TRUE
    /\ IF c # "equity_tax" THEN IdleEquityTax ELSE TRUE
    /\ IF c # "overlap" THEN IdleOverlap ELSE TRUE
    /\ IF c # "metrics" THEN IdleMetrics ELSE TRUE
    /\ IF c # "cagr" THEN IdleCagr ELSE TRUE
    /\ IF c # "drawdown" THEN IdleDrawdown ELSE TRUE
    /\ IF c # "beta" THEN IdleBeta ELSE TRUE
    /\ IF c # "sortino" THEN IdleSortino ELSE TRUE
    /\ IF c # "nav" THEN IdleNav ELSE TRUE
    /\ IF c # "cams" THEN IdleCams ELSE TRUE
    /\ IF c # "sheets" THEN IdleSheets ELSE TRUE
    /\ IF c # "runlog" THEN IdleRunLog ELSE TRUE
    /\ IF c # "txntype" THEN IdleTxnType ELSE TRUE
    /\ IF c # "workflow" THEN IdleWorkflow ELSE TRUE

OthersUnchanged(c) ==
    /\ IF c # "tax" THEN UNCHANGED taxVars ELSE TRUE
    /\ IF c # "classify" THEN UNCHANGED clsVars ELSE TRUE
    /\ IF c # "equity_tax" THEN UNCHANGED eqVars ELSE TRUE
    /\ IF c # "overlap" THEN UNCHANGED ovVars ELSE TRUE
    /\ IF c # "metrics" THEN UNCHANGED metVars ELSE TRUE
    /\ IF c # "cagr" THEN UNCHANGED cagrVars ELSE TRUE
    /\ IF c # "drawdown" THEN UNCHANGED ddVars ELSE TRUE
    /\ IF c # "beta" THEN UNCHANGED betaVars ELSE TRUE
    /\ IF c # "sortino" THEN UNCHANGED soVars ELSE TRUE
    /\ IF c # "nav" THEN UNCHANGED navVars ELSE TRUE
    /\ IF c # "cams" THEN UNCHANGED camsVars ELSE TRUE
    /\ IF c # "sheets" THEN UNCHANGED sheetVars ELSE TRUE
    /\ IF c # "runlog" THEN UNCHANGED logVars ELSE TRUE
    /\ IF c # "txntype" THEN UNCHANGED ttVars ELSE TRUE
    /\ IF c # "workflow" THEN UNCHANGED wfVars ELSE TRUE

(***************************************************************************)
(* tax_engine.compute_tax_liability                                        *)
(*                                                                         *)
(* The input is a chronologically ordered ledger of cams_parser            *)
(* transaction dicts: folio, scheme_name, transaction_date, txn_type,      *)
(* amount, units, nav.  Units are signed: positive for a buy, negative     *)
(* for a sell.  transaction_date is the day number of the transaction; in  *)
(* a ledger it is the position of the transaction, so that the ledger is   *)
(* in date order.                                                          *)
(***************************************************************************)
MaxTxns  == 3
MaxUnits == 2
MaxNav   == 2

BuyTypes  == {"Purchase", "SIP", "Switch-In"}
SellTypes == {"Redemption", "Switch-Out"}

Keys ==
    { [folio |-> "F1", scheme_name |-> "S1"],
      [folio |-> "F2", scheme_name |-> "S1"],
      [folio |-> "F1", scheme_name |-> "S2"] }

TxnKey(t) == [folio |-> t.folio, scheme_name |-> t.scheme_name]

\* One transaction dict on day d.
Txn(k, d, ty, u, n) ==
    [ folio            |-> k.folio,
      scheme_name      |-> k.scheme_name,
      transaction_date |-> d,
      txn_type         |-> ty,
      amount           |-> (IF ty \in SellTypes THEN -u ELSE u) * n,
      units            |-> IF ty \in SellTypes THEN -u ELSE u,
      nav              |-> n ]

TxnsOnDay(d) ==
    { Txn(k, d, ty, u, n) :
        k \in Keys, ty \in BuyTypes \cup SellTypes, u \in 1..MaxUnits, n \in 1..MaxNav }

LedgersOfLen(len) ==
    { l \in [1..len -> UNION { TxnsOnDay(d) : d \in 1..len }] :
        \A i \in 1..len : l[i].transaction_date = i }

Ledgers == UNION { LedgersOfLen(len) : len \in 0..MaxTxns }

\* def compute_tax_liability(transactions, nav_records, logger): the body logs a
\* warning and returns the empty list, for every input.
compute_tax_liability(txns) == << >>

InitTax ==
    /\ transactions \in Ledgers
    /\ tax_records = << >>
    /\ tax_pc = "start"
    /\ OthersIdle("tax")

\* One call of compute_tax_liability(transactions, ...): it returns normally; no
\* statement of the body raises.
ComputeTaxLiability ==
    /\ tax_pc = "start"
    /\ tax_records' = compute_tax_liability(transactions)
    /\ tax_pc' = "returned"
    /\ UNCHANGED transactions
    /\ OthersUnchanged("tax")

NextTax == ComputeTaxLiability

SpecTax == InitTax /\ [][NextTax]_vars

(***************************************************************************)
(* Vocabulary of the tax-lot claims, over the ledger passed in and the     *)
(* list of tax event dicts returned (scheme_code, redemption_date, units,  *)
(* cost_basis, redemption_value, gain, gain_type, tax_amount).             *)
(***************************************************************************)
RECURSIVE SumUnits(_)
SumUnits(events) ==
    IF events = << >> THEN 0
    ELSE Abs(Head(events).units) + SumUnits(Tail(events))

\* Units of key k held after the first n transactions of ledger l.
RECURSIVE Balance(_, _, _)
Balance(l, k, n) ==
    IF n = 0 THEN 0
    ELSE Balance(l, k, n - 1) + (IF TxnKey(l[n]) = k THEN l[n].units ELSE 0)

\* Some sell asks for more units than the open lots of its key hold.
Oversold(l) ==
    \E i \in 1..Len(l) :
        /\ l[i].txn_type \in SellTypes
        /\ Balance(l, TxnKey(l[i]), i) < 0

HasSell(l) == \E i \in 1..Len(l) : l[i].txn_type \in SellTypes

\* Buys of one key followed by one redemption of that key that the buys cover.
BuysThenRedemption(l) ==
    /\ Len(l) >= 2
    /\ l[Len(l)].txn_type \in SellTypes
    /\ \A i \in 1..(Len(l) - 1) :
        /\ l[i].txn_type \in BuyTypes
        /\ TxnKey(l[i]) = TxnKey(l[Len(l)])
    /\ ~Oversold(l)

\* C1: after buys of one key and a redemption of that key no larger than the
\* units bought, the units of the tax events returned sum to the absolute
\* units of the redemption.
C1_MatchedUnitsEqualRedemption ==
    (tax_pc = "returned" /\ BuysThenRedemption(transactions))
        => SumUnits(tax_records) = Abs(transactions[Len(transactions)].units)

\* C2: lots are consumed oldest first.  After two purchases of one key and
\* a redemption of that key smaller than the first purchase, the whole
\* redemption is matched against the first lot and none of it against the
\* second: exactly one tax event comes back, for the units redeemed, with its
\* cost basis taken at the first lot's cost per unit (amount / units).
C2_OldestLotConsumedFirst ==
    ( /\ tax_pc = "returned"
      /\ Len(transactions) = 3
      /\ BuysThenRedemption(transactions)
      /\ Abs(transactions[3].units) < transactions[1].units )
        => /\ Len(tax_records) = 1
           /\ tax_records[1].units = Abs(transactions[3].units)
           /\ tax_records[1].cost_basis * transactions[1].units
                = Abs(transactions[3].units) * transactions[1].amount

\* C3: a sell that asks for more units than its key's open lots hold makes
\* compute_tax_liability fail (InsufficientLotsError); it does not return.
C3_OversoldRaises ==
    (tax_pc # "start" /\ Oversold(transactions)) => tax_pc = "raised"

\* C5: every tax event belongs to a redemption of the ledger, has
\* redemption_value = matched units x that redemption's NAV and
\* gain = redemption_value - cost_basis, and a ledger with a redemption that
\* its lots cover yields at least one event.
C5_EventPerConsumedLot ==
    (tax_pc = "returned" /\ HasSell(transactions) /\ ~Oversold(transactions))
        => /\ tax_records # << >>
           /\ \A j \in 1..Len(tax_records) :
                /\ tax_records[j].units > 0
                /\ tax_records[j].gain
                     = tax_records[j].redemption_value - tax_records[j].cost_basis
                /\ \E i \in 1..Len(transactions) :
                     /\ transactions[i].txn_type \in SellTypes
                     /\ tax_records[j].redemption_date = transactions[i].transaction_date
                     /\ tax_records[j].redemption_value
                          = tax_records[j].units * transactions[i].nav

(***************************************************************************)
(* tax_engine.classify_holding                                             *)
(*                                                                         *)
(* The arguments are datetime.date values, modelled as [year, month, day]. *)
(* (redemption_date - purchase_date).days is the difference of the two     *)
(* proleptic Gregorian ordinals (date.toordinal).  The inputs are          *)
(* enumerated by stepping the redemption date one calendar day at a time   *)
(* away from the purchase date; elapsed counts those steps.                *)
(***************************************************************************)
EQUITY_HOLDING_THRESHOLD_DAYS == 365

YearSpan       == 1
MaxHoldingDays == 400
MaxBackDays    == 2

IsLeap(y) == y % 4 = 0 /\ (y % 100 # 0 \/ y % 400 = 0)

DaysInMonth(y, m) ==
    IF m = 2 THEN (IF IsLeap(y) THEN 29 ELSE 28)
    ELSE IF m \in {4, 6, 9, 11} THEN 30 ELSE 31

DaysBeforeYear(y) ==
    (y - 1) * 365 + ((y - 1) \div 4) - ((y - 1) \div 100) + ((y - 1) \div 400)

RECURSIVE DaysBeforeMonth(_, _)
DaysBeforeMonth(y, m) ==
    IF m = 1 THEN 0 ELSE DaysBeforeMonth(y, m - 1) + DaysInMonth(y, m - 1)

\* date.toordinal(): 1 for 0001-01-01.
ToOrdinal(d) == DaysBeforeYear(d.year) + DaysBeforeMonth(d.year, d.month) + d.day

Date(y, m, d) == [year |-> y, month |-> m, day |-> d]

\* The calendar day after d, and the one before it.
NextDay(d) ==
    IF d.day < DaysInMonth(d.year, d.month) THEN Date(d.year, d.month, d.day + 1)
    ELSE IF d.month < 12 THEN Date(d.year, d.month + 1, 1)
    ELSE Date(d.year + 1, 1, 1)

PrevDay(d) ==
    IF d.day > 1 THEN Date(d.year, d.month, d.day - 1)
    ELSE IF d.month > 1 THEN Date(d.year, d.month - 1, DaysInMonth(d.year, d.month - 1))
    ELSE Date(d.year - 1, 12, 31)

\* Purchase dates around the month and year ends, 29 February included.
PurchaseDates ==
    { Date(y, md[1], md[2]) :
        y \in 2023..(2023 + YearSpan),
        md \in {<<1, 1>>, <<2, 28>>, <<3, 1>>, <<12, 31>>} }
    \cup { Date(y, 2, 29) : y \in { yy \in 2023..(2023 + YearSpan) : IsLeap(yy) } }

\* holding_days = (redemption_date - purchase_date).days
holding_days(p, r) == ToOrdinal(r) - ToOrdinal(p)

\* Mutants of classify_holding: "> threshold" for ">= threshold"; the fund
\* type ignored.
classify_holding_strict(p, r, eq) ==
    IF eq
    THEN (IF holding_days(p, r) > EQUITY_HOLDING_THRESHOLD_DAYS THEN "LTCG" ELSE "STCG")
    ELSE "STCG"

classify_holding_any_fund(p, r, eq) ==
    IF holding_days(p, r) >= EQUITY_HOLDING_THRESHOLD_DAYS THEN "LTCG" ELSE "STCG"

classify_holding(p, r, eq) ==
    IF eq
    THEN (IF holding_days(p, r) >= EQUITY_HOLDING_THRESHOLD_DAYS THEN "LTCG" ELSE "STCG")
    ELSE "STCG"

InitClassify ==
    /\ purchase_date \in PurchaseDates
    /\ redemption_date = purchase_date
    /\ elapsed = 0
    /\ is_equity \in BOOLEAN
    /\ gain_type = ""
    /\ cls_pc = "input"
    /\ OthersIdle("classify")

\* Input: a redemption date one day later.
LaterRedemption ==
    /\ cls_pc = "input"
    /\ elapsed >= 0
    /\ elapsed < MaxHoldingDays
    /\ redemption_date' = NextDay(redemption_date)
    /\ elapsed' = elapsed + 1
    /\ UNCHANGED <<purchase_date, is_equity, gain_type, cls_pc>>
    /\ OthersUnchanged("classify")

\* Input: a redemption date one day earlier (before the purchase).
EarlierRedemption ==
    /\ cls_pc = "input"
    /\ elapsed <= 0
    /\ elapsed > -MaxBackDays
    /\ redemption_date' = PrevDay(redemption_date)
    /\ elapsed' = elapsed - 1
    /\ UNCHANGED <<purchase_date, is_equity, gain_type, cls_pc>>
    /\ OthersUnchanged("classify")

\* One call classify_holding(purchase_date, redemption_date, is_equity).
ClassifyHolding ==
    /\ cls_pc = "input"
    /\ gain_type' = classify_holding(purchase_date, redemption_date, is_equity)
    /\ cls_pc' = "done"
    /\ UNCHANGED <<purchase_date, redemption_date, elapsed, is_equity>>
    /\ OthersUnchanged("classify")

NextClassify == LaterRedemption \/ EarlierRedemption \/ ClassifyHolding

SpecClassify == InitClassify /\ [][NextClassify]_vars

\* The ordinal difference the code computes is the number of calendar days
\* between the two dates.
HoldingDaysAreCalendarDays ==
    cls_pc \in {"input", "done"} => holding_days(purchase_date, redemption_date) = elapsed

\* C7: for an equity fund classify_holding returns LTCG exactly when the
\* redemption date is at least 365 calendar days after the purchase date,
\* and STCG otherwise; 364 days gives STCG and 365 days gives LTCG.
C7_EquityLtcgFrom365Days ==
    (cls_pc = "done" /\ is_equity)
        => /\ gain_type \in {"LTCG", "STCG"}
           /\ gain_type = "LTCG" <=> elapsed >= 365
           /\ elapsed = 364 => gain_type = "STCG"
           /\ elapsed = 365 => gain_type = "LTCG"

\* C7 witness: an equity holding of exactly 365 days that spans 29 February
\* 2024 has been classified LTCG.
C7_Witness ==
    /\ cls_pc = "done"
    /\ is_equity
    /\ elapsed = 365
    /\ purchase_date = Date(2023, 12, 31)
    /\ redemption_date = Date(2024, 12, 30)
    /\ gain_type = "LTCG"

\* C8: for a non-equity (debt) fund classify_holding returns STCG for every
\* pair of dates, whatever the holding period.
C8_DebtAlwaysStcg ==
    (cls_pc = "done" /\ ~is_equity) => gain_type = "STCG"

\* C8 witness: a debt holding of more than a year has been classified STCG.
C8_Witness ==
    /\ cls_pc = "done"
    /\ ~is_equity
    /\ elapsed = MaxHoldingDays
    /\ elapsed >= 365
    /\ gain_type = "STCG"

(***************************************************************************)
(* tax_engine.compute_equity_tax                                           *)
(*                                                                         *)
(* ltcg_total, ltcg_taxable and stcg_total are rupees; ltcg_tax, stcg_tax  *)
(* and total_tax are thousandths of a rupee, the rates being thousandths   *)
(* (0.125 = 125 / 1000, 0.20 = 200 / 1000).                                *)
(***************************************************************************)
LTCG_EQUITY_THRESHOLD == 125000
LTCG_EQUITY_RATE      == 125
STCG_EQUITY_RATE      == 200

MaxDelta == 3
MaxLoss  == 2
MaxStcg  == 3

\* Totals around the exemption, small gains and losses, and the totals the
\* tests use.
LtcgInputs ==
    { LTCG_EQUITY_THRESHOLD + d : d \in (-MaxDelta)..MaxDelta }
    \cup ((-MaxLoss)..0) \cup {100000, 225000}

StcgInputs == ((-MaxLoss)..MaxStcg) \cup {50000}

\* Mutants of compute_equity_tax: no exemption on LTCG; the exemption
\* applied to STCG as well.
compute_equity_tax_no_exemption(l, s) ==
    LET ltcg_taxable == Max(0, l)
        ltcg_tax == ltcg_taxable * LTCG_EQUITY_RATE
        stcg_tax == s * STCG_EQUITY_RATE
    IN  [ ltcg_total   |-> l,
          ltcg_taxable |-> ltcg_taxable,
          ltcg_tax     |-> ltcg_tax,
          stcg_total   |-> s,
          stcg_tax     |-> stcg_tax,
          total_tax    |-> ltcg_tax + stcg_tax ]

compute_equity_tax_stcg_exempt(l, s) ==
    LET ltcg_taxable == Max(0, l - LTCG_EQUITY_THRESHOLD)
        ltcg_tax == ltcg_taxable * LTCG_EQUITY_RATE
        stcg_tax == Max(0, s - LTCG_EQUITY_THRESHOLD) * STCG_EQUITY_RATE
    IN  [ ltcg_total   |-> l,
          ltcg_taxable |-> ltcg_taxable,
          ltcg_tax     |-> ltcg_tax,
          stcg_total   |-> s,
          stcg_tax     |-> stcg_tax,
          total_tax    |-> ltcg_tax + stcg_tax ]

compute_equity_tax(l, s) ==
    LET ltcg_taxable == Max(0, l - LTCG_EQUITY_THRESHOLD)
        ltcg_tax == ltcg_taxable * LTCG_EQUITY_RATE
        stcg_tax == s * STCG_EQUITY_RATE
    IN  [ ltcg_total   |-> l,
          ltcg_taxable |-> ltcg_taxable,
          ltcg_tax     |-> ltcg_tax,
          stcg_total   |-> s,
          stcg_tax     |-> stcg_tax,
          total_tax    |-> ltcg_tax + stcg_tax ]

InitEquityTax ==
    /\ ltcg_total \in LtcgInputs
    /\ stcg_total \in StcgInputs
    /\ equity_tax = << >>
    /\ eq_pc = "input"
    /\ OthersIdle("equity_tax")

\* One call compute_equity_tax(ltcg_total, stcg_total).
ComputeEquityTax ==
    /\ eq_pc = "input"
    /\ equity_tax' = << compute_equity_tax(ltcg_total, stcg_total) >>
    /\ eq_pc' = "done"
    /\ UNCHANGED <<ltcg_total, stcg_total>>
    /\ OthersUnchanged("equity_tax")

NextEquityTax == ComputeEquityTax

SpecEquityTax == InitEquityTax /\ [][NextEquityTax]_vars

\* C9: equity LTCG is taxed at 12.5% on the part of ltcg_total above the
\* 125000 exemption only: ltcg_tax = 0 when ltcg_total <= 125000, and
\* ltcg_tax = (ltcg_total - 125000) x 0.125 when ltcg_total > 125000
\* (tax in thousandths of a rupee: x 125).
C9_LtcgTaxedAboveExemption ==
    eq_pc = "done"
        => /\ ltcg_total <= 125000 => equity_tax[1].ltcg_tax = 0
           /\ ltcg_total > 125000
                => equity_tax[1].ltcg_tax = (ltcg_total - 125000) * 125

\* C9 witness: compute_equity_tax(225000, 0) has returned ltcg_tax 12500.0.
C9_Witness ==
    /\ eq_pc = "done"
    /\ ltcg_total = 225000
    /\ stcg_total = 0
    /\ equity_tax[1].ltcg_tax = 12500 * 1000

\* C10: equity STCG is taxed flat at 20% with no exemption:
\* stcg_tax = stcg_total x 0.20 for every stcg_total, whatever ltcg_total is
\* (tax in thousandths of a rupee: x 200).
C10_StcgTaxedFlat ==
    eq_pc = "done" => equity_tax[1].stcg_tax = stcg_total * 200

\* C10 witness: compute_equity_tax(225000, 50000) has returned stcg_tax
\* 10000.0, beside a taxed LTCG total.
C10_Witness ==
    /\ eq_pc = "done"
    /\ stcg_total = 50000
    /\ ltcg_total = 225000
    /\ equity_tax[1].stcg_tax = 10000 * 1000

\* C30: for all inputs, including a net loss (negative ltcg_total or negative
\* stcg_total), compute_equity_tax returns no negative tax amount:
\* ltcg_taxable >= 0, ltcg_tax >= 0, stcg_tax >= 0 and total_tax >= 0, with
\* total_tax = ltcg_tax + stcg_tax.
C30_NoNegativeTax ==
    eq_pc = "done" =>
        /\ equity_tax[1].ltcg_taxable >= 0
        /\ equity_tax[1].ltcg_tax >= 0
        /\ equity_tax[1].stcg_tax >= 0
        /\ equity_tax[1].total_tax >= 0
        /\ equity_tax[1].total_tax = equity_tax[1].ltcg_tax + equity_tax[1].stcg_tax

(***************************************************************************)
(* overlap_engine.compute_pairwise_overlap                                 *)
(*                                                                         *)
(* A holding dict is [scheme_code, isin, weight_pct].  A scheme code is a  *)
(* natural number n; code_kind says whether the dicts hold the Python int  *)
(* n or the str of its decimal digits (one kind per collection).           *)
(* str(scheme_code) is the sequence of decimal digits of n.  weight_pct is *)
(* a whole number of percent, so round(weighted_overlap, 4) is the sum     *)
(* itself; jaccard_overlap is kept in ten-thousandths (round(x, 4)).       *)
(***************************************************************************)
MaxHoldings == 4

Isins   == {"I1", "I2", "I3"}
Weights == {30, 70}

RECURSIVE Digits(_)
Digits(n) == IF n < 10 THEN <<n>> ELSE Append(Digits(n \div 10), n % 10)

\* str(scheme_code)
Str(n) == Digits(n)

\* Python's s < t on two strings of digits.
RECURSIVE StrLess(_, _)
StrLess(s, t) ==
    IF t = << >> THEN FALSE
    ELSE IF s = << >> THEN TRUE
    ELSE IF Head(s) # Head(t) THEN Head(s) < Head(t)
    ELSE StrLess(Tail(s), Tail(t))

\* The order in which df.groupby("scheme_code") yields its groups (sort=True):
\* ascending scheme_code values, numbers by value and strings lexically.
GroupLess(kind, a, b) == IF kind = "int" THEN a < b ELSE StrLess(Str(a), Str(b))

RECURSIVE SortedCodes(_, _)
SortedCodes(S, kind) ==
    IF S = {} THEN << >>
    ELSE LET m == CHOOSE x \in S : \A y \in S \ {x} : GroupLess(kind, x, y)
         IN  <<m>> \o SortedCodes(S \ {m}, kind)

\* The rows of one group, in input order.
GroupRows(recs, c) == SelectSeq(recs, LAMBDA r : r.scheme_code = c)

\* dict(zip(group["isin"], group["weight_pct"])): a later row of the same
\* ISIN overwrites an earlier one.
DictZip(rows) ==
    [ isin \in { rows[i].isin : i \in 1..Len(rows) } |->
        LET last == CHOOSE i \in 1..Len(rows) :
                        /\ rows[i].isin = isin
                        /\ \A j \in (i + 1)..Len(rows) : rows[j].isin # isin
        IN  rows[last].weight_pct ]

\* itertools.combinations(fund_codes, 2), in its order.
RECURSIVE Combinations2(_)
Combinations2(codes) ==
    IF Len(codes) <= 1 THEN << >>
    ELSE [ j \in 1..(Len(codes) - 1) |-> <<Head(codes), Tail(codes)[j]>> ]
         \o Combinations2(Tail(codes))

\* round(n / d, 4) in ten-thousandths: to the nearest, a tie to the even one.
Round4(n, d) ==
    LET q == (10000 * n) \div d
        r == (10000 * n) % d
    IN  IF 2 * r < d THEN q
        ELSE IF 2 * r > d THEN q + 1
        ELSE IF q % 2 = 0 THEN q ELSE q + 1

Min(a, b) == IF a <= b THEN a ELSE b

\* Mutant of WeightedOverlap: max for min.
RECURSIVE WeightedOverlapMax(_, _, _)
WeightedOverlapMax(common, weights_a, weights_b) ==
    IF common = {} THEN 0
    ELSE LET isin == CHOOSE x \in common : TRUE
         IN  Max(weights_a[isin], weights_b[isin])
               + WeightedOverlapMax(common \ {isin}, weights_a, weights_b)

\* sum(min(weights_a.get(isin, 0), weights_b.get(isin, 0)) for isin in intersection)
RECURSIVE WeightedOverlap(_, _, _)
WeightedOverlap(common, weights_a, weights_b) ==
    IF common = {} THEN 0
    ELSE LET isin == CHOOSE x \in common : TRUE
         IN  Min(weights_a[isin], weights_b[isin])
               + WeightedOverlap(common \ {isin}, weights_a, weights_b)

\* Mutant of Jaccard: the smaller fund for the union.
JaccardOfSmaller(holdings_a, holdings_b) ==
    IF holdings_a \cup holdings_b # {}
    THEN Round4(Cardinality(holdings_a \cap holdings_b),
                Min(Cardinality(holdings_a), Cardinality(holdings_b)))
    ELSE 0

\* jaccard = len(intersection) / len(union) if union else 0.0, rounded.
Jaccard(holdings_a, holdings_b) ==
    IF holdings_a \cup holdings_b # {}
    THEN Round4(Cardinality(holdings_a \cap holdings_b),
                Cardinality(holdings_a \cup holdings_b))
    ELSE 0

\* One pass of the loop body for the pair (fund_a, fund_b) of scheme codes.
OverlapRecord(recs, a, b) ==
    LET weights_a  == DictZip(GroupRows(recs, a))
        weights_b  == DictZip(GroupRows(recs, b))
        holdings_a == DOMAIN weights_a
        holdings_b == DOMAIN weights_b
    IN  [ fund_a               |-> Str(a),
          fund_b               |-> Str(b),
          jaccard_overlap      |-> Jaccard(holdings_a, holdings_b),
          weighted_overlap_pct |-> WeightedOverlap(holdings_a \cap holdings_b,
                                                   weights_a, weights_b),
          common_stocks        |-> Cardinality(holdings_a \cap holdings_b) ]

\* Mutant of FundCodes: the groups in input order (groupby with sort=False).
RECURSIVE FundCodesUnsorted(_, _)
FundCodesUnsorted(recs, kind) ==
    IF recs = << >> THEN << >>
    ELSE <<Head(recs).scheme_code>>
         \o FundCodesUnsorted(
                SelectSeq(Tail(recs), LAMBDA r : r.scheme_code # Head(recs).scheme_code),
                kind)

\* fund_codes = list(fund_holdings.keys()): the groups in groupby order.
FundCodes(recs, kind) ==
    SortedCodes({ recs[i].scheme_code : i \in 1..Len(recs) }, kind)

\* The function body after the empty-input guard.  pd.DataFrame([]) has no
\* column "scheme_code", so groupby raises KeyError on an empty list.
\* Mutant of OverlapBody: pairs of funds that share no ISIN are left out.
OverlapBodySharedOnly(recs, kind) ==
    IF recs = << >>
    THEN [status |-> "raised", error |-> "KeyError", results |-> << >>]
    ELSE LET pairs  == Combinations2(FundCodes(recs, kind))
             shared == SelectSeq(pairs, LAMBDA p :
                           OverlapRecord(recs, p[1], p[2]).common_stocks > 0)
         IN  [ status  |-> "returned",
               error   |-> "",
               results |-> [ k \in 1..Len(shared) |->
                               OverlapRecord(recs, shared[k][1], shared[k][2]) ] ]

OverlapBody(recs, kind) ==
    IF recs = << >>
    THEN [status |-> "raised", error |-> "KeyError", results |-> << >>]
    ELSE LET pairs == Combinations2(FundCodes(recs, kind))
         IN  [ status  |-> "returned",
               error   |-> "",
               results |-> [ k \in 1..Len(pairs) |->
                               OverlapRecord(recs, pairs[k][1], pairs[k][2]) ] ]

\* Mutant of compute_pairwise_overlap: the empty-input guard left out.
compute_pairwise_overlap_no_guard(recs, kind) == OverlapBody(recs, kind)

compute_pairwise_overlap(recs, kind) ==
    IF recs = << >>
    THEN [status |-> "returned", error |-> "", results |-> << >>]
    ELSE OverlapBody(recs, kind)

HoldingRows(codes, isins, weights) ==
    { [scheme_code |-> c, isin |-> i, weight_pct |-> w] :
        c \in codes, i \in isins, w \in weights }

HoldingLists(codes, isins, weights) ==
    UNION { [1..len -> HoldingRows(codes, isins, weights)] : len \in 0..MaxHoldings }

\* Two funds, three ISINs, two weights.
InitOverlap ==
    /\ composition_records \in HoldingLists({9, 10}, Isins, Weights)
    /\ code_kind \in {"str", "int"}
    /\ overlap_records = << >>
    /\ ov_pc = "start"
    /\ OthersIdle("overlap")

\* Three funds, two ISINs, one weight.
InitOverlapFunds ==
    /\ composition_records \in HoldingLists({9, 10, 11}, {"I1", "I2"}, {30})
    /\ code_kind \in {"str", "int"}
    /\ overlap_records = << >>
    /\ ov_pc = "start"
    /\ OthersIdle("overlap")

\* One call compute_pairwise_overlap(composition_records, logger).
ComputePairwiseOverlap ==
    /\ ov_pc = "start"
    /\ LET out == compute_pairwise_overlap(composition_records, code_kind)
       IN  /\ overlap_records' = out.results
           /\ ov_pc' = out.status
    /\ UNCHANGED <<composition_records, code_kind>>
    /\ OthersUnchanged("overlap")

NextOverlap == ComputePairwiseOverlap

SpecOverlap == InitOverlap /\ [][NextOverlap]_vars

SpecOverlapFunds == InitOverlapFunds /\ [][NextOverlap]_vars

(***************************************************************************)
(* Vocabulary of the overlap claims, over the holdings passed in and the   *)
(* records returned.                                                       *)
(***************************************************************************)
\* The ISINs the collection lists under scheme code c.
IsinsOf(recs, c) == { recs[i].isin : i \in { j \in 1..Len(recs) : recs[j].scheme_code = c } }

\* The weight of the last row of the collection for (c, isin).
LastWeight(recs, c, isin) ==
    LET rows == { i \in 1..Len(recs) : recs[i].scheme_code = c /\ recs[i].isin = isin }
    IN  recs[CHOOSE i \in rows : \A j \in rows : j <= i].weight_pct

\* The sum over the ISINs of seq that both funds hold of the smaller weight.
RECURSIVE SumOfMinWeights(_, _, _, _)
SumOfMinWeights(recs, a, b, seq) ==
    IF seq = << >> THEN 0
    ELSE (IF Head(seq) \in IsinsOf(recs, a) \cap IsinsOf(recs, b)
          THEN LET wa == LastWeight(recs, a, Head(seq))
                   wb == LastWeight(recs, b, Head(seq))
               IN  IF wa < wb THEN wa ELSE wb
          ELSE 0)
         + SumOfMinWeights(recs, a, b, Tail(seq))

\* The sum of the weight_pct of all rows of scheme code c.
RECURSIVE RowWeightSum(_, _)
RowWeightSum(recs, c) ==
    IF recs = << >> THEN 0
    ELSE (IF Head(recs).scheme_code = c THEN Head(recs).weight_pct ELSE 0)
         + RowWeightSum(Tail(recs), c)

CodesOf(recs) == { recs[i].scheme_code : i \in 1..Len(recs) }

\* The number a string of digits spells.
RECURSIVE NumVal(_)
NumVal(ds) == IF ds = << >> THEN 0 ELSE 10 * NumVal(SubSeq(ds, 1, Len(ds) - 1)) + ds[Len(ds)]

\* No pair is reported twice, in either direction, and no fund with itself.
PairsDeduplicated(results) ==
    /\ \A k \in 1..Len(results) : results[k].fund_a # results[k].fund_b
    /\ \A k, m \in 1..Len(results) :
          k # m =>
            /\ <<results[k].fund_a, results[k].fund_b>> # <<results[m].fund_a, results[m].fund_b>>
            /\ <<results[k].fund_a, results[k].fund_b>> # <<results[m].fund_b, results[m].fund_a>>

\* C11: every record reported for funds a and b has common_stocks = |A & B|,
\* jaccard_overlap = |A & B| / |A | B| rounded to 4 decimals (the nearest
\* ten-thousandth), and weighted_overlap_pct = the sum over the common ISINs
\* of min(weight in A, weight in B), A and B being the ISIN sets of the two
\* funds and the weight of an ISIN listed twice being the last one listed.
C11_OverlapFormulas ==
    ov_pc = "returned" =>
        \A k \in 1..Len(overlap_records) :
            \E a, b \in CodesOf(composition_records) :
                LET rec == overlap_records[k]
                    A == IsinsOf(composition_records, a)
                    B == IsinsOf(composition_records, b)
                IN  /\ rec.fund_a = Str(a)
                    /\ rec.fund_b = Str(b)
                    /\ rec.common_stocks = Cardinality(A \cap B)
                    /\ 2 * Abs(rec.jaccard_overlap * Cardinality(A \cup B)
                                 - 10000 * Cardinality(A \cap B))
                         <= Cardinality(A \cup B)
                    /\ rec.weighted_overlap_pct
                         = SumOfMinWeights(composition_records, a, b, <<"I1", "I2", "I3">>)

\* C11 witness: fund 9 holds {I1: 30, I2: 70} and fund 10 holds
\* {I2: 30, I3: 70}; the record returned has jaccard 1/3 = 0.3333,
\* weighted overlap min(70, 30) = 30 and one common stock.
C11_Witness ==
    /\ ov_pc = "returned"
    /\ composition_records =
         << [scheme_code |-> 9,  isin |-> "I1", weight_pct |-> 30],
            [scheme_code |-> 9,  isin |-> "I2", weight_pct |-> 70],
            [scheme_code |-> 10, isin |-> "I2", weight_pct |-> 30],
            [scheme_code |-> 10, isin |-> "I3", weight_pct |-> 70] >>
    /\ Len(overlap_records) = 1
    /\ overlap_records[1].jaccard_overlap = 3333
    /\ overlap_records[1].weighted_overlap_pct = 30
    /\ overlap_records[1].common_stocks = 1

\* C12 as claimed: no pair twice or reversed, no self pair, and in every
\* record fund_a is lexically smaller than fund_b as scheme-code strings,
\* for string and for integer scheme codes alike.
C12_Original_LexicalOrder ==
    ov_pc = "returned" =>
        /\ PairsDeduplicated(overlap_records)
        /\ \A k \in 1..Len(overlap_records) :
              StrLess(overlap_records[k].fund_a, overlap_records[k].fund_b)

\* C12 amended: no pair twice or reversed and no self pair, whatever the
\* input order; in every record fund_a comes before fund_b in the order of
\* the scheme_code values: lexically when the scheme codes are strings,
\* by value when they are integers.
C12_PairsOrderedByCodeValue ==
    ov_pc = "returned" =>
        /\ PairsDeduplicated(overlap_records)
        /\ \A k \in 1..Len(overlap_records) :
              IF code_kind = "str"
              THEN StrLess(overlap_records[k].fund_a, overlap_records[k].fund_b)
              ELSE NumVal(overlap_records[k].fund_a) < NumVal(overlap_records[k].fund_b)

\* C12 witness: integer codes listed as 11, 10, 9 gave three records, with
\* ("9", "10") among them.
C12_Witness ==
    /\ ov_pc = "returned"
    /\ code_kind = "int"
    /\ Len(composition_records) = 3
    /\ composition_records[1].scheme_code = 11
    /\ composition_records[2].scheme_code = 10
    /\ composition_records[3].scheme_code = 9
    /\ Len(overlap_records) = 3
    /\ \E k \in 1..3 :
          overlap_records[k].fund_a = <<9>> /\ overlap_records[k].fund_b = <<1, 0>>

\* C13: called with an empty holdings collection, compute_pairwise_overlap
\* returns an empty list and raises nothing.
C13_EmptyHoldingsEmptyResult ==
    (ov_pc # "start" /\ composition_records = << >>)
        => (ov_pc = "returned" /\ overlap_records = << >>)

\* C13 witness: the call on the empty collection has returned.
C13_Witness ==
    /\ composition_records = << >>
    /\ ov_pc = "returned"
    /\ overlap_records = << >>

\* C14 as claimed: with every weight_pct in 0..100, every record has
\* jaccard_overlap in [0, 1] and weighted_overlap_pct in [0, 100].
C14_Original_Ranges ==
    ( /\ ov_pc = "returned"
      /\ \A i \in 1..Len(composition_records) :
            composition_records[i].weight_pct \in 0..100 )
        => \A k \in 1..Len(overlap_records) :
              /\ overlap_records[k].jaccard_overlap \in 0..10000
              /\ overlap_records[k].weighted_overlap_pct \in 0..100

\* C14 amended: with every weight_pct in 0..100 and the weight_pct of each
\* fund's rows summing to at most 100, every record has jaccard_overlap in
\* [0, 1] and weighted_overlap_pct in [0, 100], also when a fund lists an
\* ISIN more than once.
C14_RangesWhenFundWeightsSumTo100 ==
    ( /\ ov_pc = "returned"
      /\ \A i \in 1..Len(composition_records) :
            composition_records[i].weight_pct \in 0..100
      /\ \A c \in CodesOf(composition_records) :
            RowWeightSum(composition_records, c) <= 100 )
        => \A k \in 1..Len(overlap_records) :
              /\ overlap_records[k].jaccard_overlap \in 0..10000
              /\ overlap_records[k].weighted_overlap_pct \in 0..100

\* C14 witness: a fund lists I1 twice (30 then 70, 100 in all), the other
\* fund holds I1 at 70, and the record returned has weighted overlap 70.
C14_Witness ==
    /\ ov_pc = "returned"
    /\ composition_records =
         << [scheme_code |-> 9,  isin |-> "I1", weight_pct |-> 30],
            [scheme_code |-> 9,  isin |-> "I1", weight_pct |-> 70],
            [scheme_code |-> 10, isin |-> "I1", weight_pct |-> 70] >>
    /\ Len(overlap_records) = 1
    /\ overlap_records[1].weighted_overlap_pct = 70
    /\ overlap_records[1].jaccard_overlap = 10000

\* C29: a collection with n distinct scheme codes gives exactly n(n-1)/2
\* records, one for every unordered pair of distinct funds; a pair that
\* shares no ISIN is reported with jaccard_overlap 0, weighted_overlap_pct 0
\* and common_stocks 0; a single fund gives an empty list.
C29_OneRecordPerFundPair ==
    ov_pc = "returned" =>
        LET funds == CodesOf(composition_records)
            n     == Cardinality(funds)
        IN  /\ 2 * Len(overlap_records) = n * (n - 1)
            /\ n = 1 => overlap_records = << >>
            /\ \A a, b \in funds :
                  a # b =>
                    \E k \in 1..Len(overlap_records) :
                        /\ {overlap_records[k].fund_a, overlap_records[k].fund_b}
                              = {Str(a), Str(b)}
                        /\ IsinsOf(composition_records, a)
                              \cap IsinsOf(composition_records, b) = {}
                             => /\ overlap_records[k].jaccard_overlap = 0
                                /\ overlap_records[k].weighted_overlap_pct = 0
                                /\ overlap_records[k].common_stocks = 0

\* C29 witness: three funds, of which 9 and 10 share no ISIN, give three
\* records, the one for (9, 10) all zero.
C29_Witness ==
    /\ ov_pc = "returned"
    /\ composition_records =
         << [scheme_code |-> 9,  isin |-> "I1", weight_pct |-> 30],
            [scheme_code |-> 10, isin |-> "I2", weight_pct |-> 30],
            [scheme_code |-> 11, isin |-> "I1", weight_pct |-> 30] >>
    /\ Len(overlap_records) = 3
    /\ \E k \in 1..3 :
          /\ overlap_records[k].fund_a = Str(9)
          /\ overlap_records[k].fund_b = Str(10)
          /\ overlap_records[k].common_stocks = 0
          /\ overlap_records[k].jaccard_overlap = 0

(***************************************************************************)
(* metrics_engine.compute_all_metrics                                      *)
(*                                                                         *)
(* The inputs are a ledger of transaction dicts and a list of NAV records  *)
(* (scheme_name, nav, nav_date); a fund is identified by its scheme_name.  *)
(***************************************************************************)
MaxMetTxns    == 1
MaxNavRecords == 2

MetSchemes == {"S1", "S2", "S3"}

NavRecords ==
    { [scheme_name |-> f, nav |-> n, nav_date |-> d] :
        f \in MetSchemes, n \in 1..MaxNav, d \in 1..MaxNavRecords }

NavHistories ==
    UNION { { h \in [1..len -> NavRecords] : \A i \in 1..len : h[i].nav_date = i } :
            len \in 0..MaxNavRecords }

\* def compute_all_metrics(transactions, nav_records, logger): the body logs a
\* warning and returns the empty list, for every input.
compute_all_metrics(txns, navs) == << >>

InitMetrics ==
    /\ met_transactions \in UNION { LedgersOfLen(len) : len \in 0..MaxMetTxns }
    /\ met_nav_records \in NavHistories
    /\ metrics = << >>
    /\ met_pc = "start"
    /\ OthersIdle("metrics")

\* One call compute_all_metrics(transactions, nav_records, logger).
ComputeAllMetrics ==
    /\ met_pc = "start"
    /\ metrics' = compute_all_metrics(met_transactions, met_nav_records)
    /\ met_pc' = "returned"
    /\ UNCHANGED <<met_transactions, met_nav_records>>
    /\ OthersUnchanged("metrics")

NextMetrics == ComputeAllMetrics

SpecMetrics == InitMetrics /\ [][NextMetrics]_vars

\* The funds that appear in a list of dicts with a scheme_name.
FundsIn(recs) == { recs[i].scheme_name : i \in 1..Len(recs) }

\* C15: compute_all_metrics returns exactly one record for every fund that
\* appears in the transactions or in the price history; no fund is left out.
C15_OneRecordPerFund ==
    met_pc = "returned" =>
        \A f \in FundsIn(met_transactions) \cup FundsIn(met_nav_records) :
            Cardinality({ k \in 1..Len(metrics) : metrics[k].scheme_name = f }) = 1

(***************************************************************************)
(* metrics_engine.compute_cagr                                             *)
(*                                                                         *)
(* The arguments are whole numbers.  The value returned,                   *)
(* (nav_end / nav_start) ** (1 / years) - 1, is kept as the three numbers  *)
(* that determine it.  A negative base raised to a power that is not a     *)
(* whole number is a complex number in Python, and float() of a complex    *)
(* number raises TypeError; 1 / years is a whole number only for years = 1 *)
(* among the whole numbers.                                                *)
(***************************************************************************)
MaxCagrNav == 3
MaxYears   == 3

CagrValue(ns, ne, y) == [base_num |-> ne, base_den |-> ns, root |-> y]

\* The statements after the guard.
CagrBody(ns, ne, y) ==
    IF y = 0 \/ ns = 0
    THEN [status |-> "ZeroDivisionError", value |-> << >>]
    ELSE IF (ne < 0) # (ns < 0) /\ ne # 0 /\ y # 1 /\ y # -1
    THEN [status |-> "TypeError", value |-> << >>]
    ELSE [status |-> "returned", value |-> << CagrValue(ns, ne, y) >>]

\* Mutant of compute_cagr: "years < 0" for "years <= 0".
compute_cagr_zero_years(ns, ne, y) ==
    IF y < 0 \/ ns <= 0
    THEN [status |-> "ValueError", value |-> << >>]
    ELSE CagrBody(ns, ne, y)

compute_cagr(ns, ne, y) ==
    IF y <= 0 \/ ns <= 0
    THEN [status |-> "ValueError", value |-> << >>]
    ELSE CagrBody(ns, ne, y)

InitCagr ==
    /\ nav_start \in (-1)..MaxCagrNav
    /\ nav_end \in (-1)..MaxCagrNav
    /\ years \in (-1)..MaxYears
    /\ cagr = << >>
    /\ cagr_pc = "input"
    /\ OthersIdle("cagr")

\* One call compute_cagr(nav_start, nav_end, years).
ComputeCagr ==
    /\ cagr_pc = "input"
    /\ LET out == compute_cagr(nav_start, nav_end, years)
       IN  /\ cagr' = out.value
           /\ cagr_pc' = out.status
    /\ UNCHANGED <<nav_start, nav_end, years>>
    /\ OthersUnchanged("cagr")

NextCagr == ComputeCagr

SpecCagr == InitCagr /\ [][NextCagr]_vars

\* C16 as claimed: compute_cagr fails with InvalidInputError and returns no
\* value whenever years <= 0 or nav_start <= 0; for years > 0 and
\* nav_start > 0 it returns a value and raises nothing.
C16_Original_InvalidInputError ==
    cagr_pc # "input" =>
        /\ (years <= 0 \/ nav_start <= 0)
              => (cagr_pc = "InvalidInputError" /\ cagr = << >>)
        /\ (years > 0 /\ nav_start > 0) => (cagr_pc = "returned" /\ cagr # << >>)

\* C16 amended: compute_cagr fails with ValueError and returns no value
\* whenever years <= 0 or nav_start <= 0; for years > 0, nav_start > 0 and
\* nav_end >= 0 it returns a value and raises nothing.
C16_ValueErrorOnNonPositive ==
    cagr_pc # "input" =>
        /\ (years <= 0 \/ nav_start <= 0) => (cagr_pc = "ValueError" /\ cagr = << >>)
        /\ (years > 0 /\ nav_start > 0 /\ nav_end >= 0)
              => (cagr_pc = "returned" /\ cagr # << >>)

\* C16 witness: compute_cagr(1, 2, 0) has raised ValueError.
C16_Witness ==
    /\ cagr_pc = "ValueError"
    /\ nav_start = 1
    /\ nav_end = 2
    /\ years = 0
    /\ cagr = << >>

(***************************************************************************)
(* metrics_engine.compute_max_drawdown                                     *)
(*                                                                         *)
(* Prices are positive whole numbers.  A drawdown is the fraction          *)
(* [num, den] with den > 0, standing for num / den; the minimum of an      *)
(* empty series is NaN, written [0, 0].                                    *)
(***************************************************************************)
MaxSeries == 4
MaxPrice  == 3

Frac(n, d) == [num |-> n, den |-> d]

\* a < b for two fractions with positive denominators.
FracLess(a, b) == a.num * b.den < b.num * a.den

FracEq(a, b) == a.num * b.den = b.num * a.den

\* float("nan"): the quotient without a value.
NaN == [num |-> 0, den |-> 0]

IsNaN(a) == a.den = 0

\* Mutant of CumMax: the maximum of the whole series at every position.
RECURSIVE SeriesMax(_)
SeriesMax(series) ==
    IF Len(series) = 1 THEN series[1]
    ELSE Max(series[Len(series)], SeriesMax(SubSeq(series, 1, Len(series) - 1)))

WholeMax(series) == [ i \in 1..Len(series) |-> SeriesMax(series) ]

\* nav_series.cummax(): the running maximum to date.
RECURSIVE CumMax(_)
CumMax(series) ==
    IF series = << >> THEN << >>
    ELSE LET before == CumMax(SubSeq(series, 1, Len(series) - 1))
             last   == series[Len(series)]
         IN  Append(before, IF before = << >> THEN last ELSE Max(before[Len(before)], last))

\* (nav_series - rolling_max) / rolling_max, element by element.
Drawdown(series) ==
    LET rolling_max == CumMax(series)
    IN  [ i \in 1..Len(series) |-> Frac(series[i] - rolling_max[i], rolling_max[i]) ]

\* drawdown.min()
RECURSIVE FracMin(_)
FracMin(fracs) ==
    IF Len(fracs) = 1 THEN fracs[1]
    ELSE LET rest == FracMin(Tail(fracs))
         IN  IF FracLess(rest, fracs[1]) THEN rest ELSE fracs[1]

compute_max_drawdown(series) ==
    IF series = << >> THEN NaN ELSE FracMin(Drawdown(series))

PriceSeries == UNION { [1..len -> 1..MaxPrice] : len \in 0..MaxSeries }

InitDrawdown ==
    /\ nav_series \in PriceSeries
    /\ max_drawdown = << >>
    /\ dd_pc = "input"
    /\ OthersIdle("drawdown")

\* One call compute_max_drawdown(nav_series).
ComputeMaxDrawdown ==
    /\ dd_pc = "input"
    /\ max_drawdown' = << compute_max_drawdown(nav_series) >>
    /\ dd_pc' = "returned"
    /\ UNCHANGED nav_series
    /\ OthersUnchanged("drawdown")

NextDrawdown == ComputeMaxDrawdown

SpecDrawdown == InitDrawdown /\ [][NextDrawdown]_vars

\* The highest price among the first i of the series.
HighestUpTo(series, i) ==
    CHOOSE m \in { series[j] : j \in 1..i } : \A j \in 1..i : series[j] <= m

MaxBetaLen == 3

ReturnValues == {-1, 1, 2}

ReturnSeries == UNION { [1..len -> ReturnValues] : len \in 0..MaxBetaLen }

RECURSIVE SumSeq(_)
SumSeq(xs) == IF xs = << >> THEN 0 ELSE Head(xs) + SumSeq(Tail(xs))

\* The element-wise product of the first k observations of two series.
Products(xs, ys, k) == [ i \in 1..k |-> xs[i] * ys[i] ]

\* fund_returns.cov(benchmark_returns): the sample covariance over the
\* index labels both series have.
SeriesCov(xs, ys) ==
    LET k == Min(Len(xs), Len(ys))
        x == SubSeq(xs, 1, k)
        y == SubSeq(ys, 1, k)
    IN  IF k < 2 THEN NaN
        ELSE Frac(k * SumSeq(Products(x, y, k)) - SumSeq(x) * SumSeq(y), k * (k - 1))

\* benchmark_returns.var(ddof=1)
SeriesVar(ys) ==
    LET m == Len(ys)
    IN  IF m < 2 THEN NaN
        ELSE Frac(m * SumSeq(Products(ys, ys, m)) - SumSeq(ys) * SumSeq(ys), m * (m - 1))

compute_beta(fund, benchmark) ==
    LET cov == SeriesCov(fund, benchmark)
        var == SeriesVar(benchmark)
    IN  IF ~IsNaN(var) /\ var.num = 0
        THEN [status |-> "returned", value |-> << Frac(0, 1) >>]
        ELSE IF IsNaN(var) \/ IsNaN(cov)
        THEN [status |-> "returned", value |-> << NaN >>]
        ELSE [status |-> "returned",
              value  |-> << Frac(cov.num * var.den, cov.den * var.num) >>]

InitBeta ==
    /\ fund_returns \in ReturnSeries
    /\ benchmark_returns \in ReturnSeries
    /\ beta = << >>
    /\ beta_pc = "input"
    /\ OthersIdle("beta")

\* One call compute_beta(fund_returns, benchmark_returns).
ComputeBeta ==
    /\ beta_pc = "input"
    /\ LET out == compute_beta(fund_returns, benchmark_returns)
       IN  /\ beta' = out.value
           /\ beta_pc' = out.status
    /\ UNCHANGED <<fund_returns, benchmark_returns>>
    /\ OthersUnchanged("beta")

NextBeta == ComputeBeta

SpecBeta == InitBeta /\ [][NextBeta]_vars

\* C18: compute_beta called with a fund series and a benchmark series of
\* different lengths fails with InvalidInputError instead of returning a
\* number.
C18_DifferentLengthsRaise ==
    (beta_pc # "input" /\ Len(fund_returns) # Len(benchmark_returns))
        => (beta_pc = "InvalidInputError" /\ beta = << >>)

(***************************************************************************)
(* metrics_engine.compute_sortino                                          *)
(*                                                                         *)
(* Returns and the risk-free rate are whole numbers.  A result is          *)
(* [sign, sq]: the float of that sign whose square is the fraction sq;     *)
(* 0.0 is [0, 0/1].                                                        *)
(***************************************************************************)
MaxSoLen   == 3
MaxPeriods == 2

SortinoReturns == {-1, 0, 1, 2}

RiskFreeRates == {-2, 0, 2}

Sign(a) == IF a > 0 THEN 1 ELSE IF a < 0 THEN -1 ELSE 0

Zero == [sign |-> 0, sq |-> Frac(0, 1)]

\* Mutant of Downside: "returns <= mar" for "returns < mar".
DownsideOrEqual(rets, rf, ppy) ==
    SelectSeq(rets, LAMBDA r : r * ppy <= rf)

\* returns[returns < mar], with mar = risk_free_rate / periods_per_year and
\* periods_per_year > 0.
Downside(rets, rf, ppy) ==
    SelectSeq(rets, LAMBDA r : r * ppy < rf)

\* (downside ** 2).mean()
MeanSquare(downside) ==
    Frac(SumSeq(Products(downside, downside, Len(downside))), Len(downside))

\* (excess_mean / downside_std) * periods_per_year ** 0.5, with
\* excess_mean = returns.mean() - mar and downside_std the root of msq.
SortinoValue(rets, rf, ppy, msq) ==
    LET excess == Frac(SumSeq(rets) * ppy - rf * Len(rets), Len(rets) * ppy)
    IN  IF excess.num = 0 THEN Zero
        ELSE [sign |-> Sign(excess.num),
              sq   |-> Frac(excess.num * excess.num * ppy * msq.den,
                            excess.den * excess.den * msq.num)]

compute_sortino(rets, rf, ppy) ==
    IF ppy = 0
    THEN [status |-> "ZeroDivisionError", value |-> << >>]
    ELSE LET downside == Downside(rets, rf, ppy)
             msq      == IF Len(downside) > 0 THEN MeanSquare(downside) ELSE Frac(0, 1)
         IN  IF msq.num = 0
             THEN [status |-> "returned", value |-> << Zero >>]
             ELSE [status |-> "returned", value |-> << SortinoValue(rets, rf, ppy, msq) >>]

InitSortino ==
    /\ returns \in UNION { [1..len -> SortinoReturns] : len \in 0..MaxSoLen }
    /\ risk_free_rate \in RiskFreeRates
    /\ periods_per_year \in 0..MaxPeriods
    /\ sortino = << >>
    /\ so_pc = "input"
    /\ OthersIdle("sortino")

\* One call compute_sortino(returns, risk_free_rate, periods_per_year).
ComputeSortino ==
    /\ so_pc = "input"
    /\ LET out == compute_sortino(returns, risk_free_rate, periods_per_year)
       IN  /\ sortino' = out.value
           /\ so_pc' = out.status
    /\ UNCHANGED <<returns, risk_free_rate, periods_per_year>>
    /\ OthersUnchanged("sortino")

NextSortino == ComputeSortino

SpecSortino == InitSortino /\ [][NextSortino]_vars

\* The minimum acceptable return risk_free_rate / periods_per_year.
Mar == Frac(risk_free_rate, periods_per_year)

\* C19: for every returns series in which no return is strictly below the
\* minimum acceptable return risk_free_rate / periods_per_year,
\* compute_sortino returns exactly 0.0 and raises nothing; a return equal to
\* the minimum acceptable return does not count as downside.
C19_NoDownsideGivesZero ==
    ( /\ so_pc # "input"
      /\ periods_per_year > 0
      /\ \A i \in 1..Len(returns) : ~FracLess(Frac(returns[i], 1), Mar) )
        => (so_pc = "returned" /\ sortino = << Zero >>)

\* C19 witness: returns 1 and 2 against a minimum acceptable return of
\* 2 / 2 = 1; the first return equals it, none is below, the result is 0.0.
C19_Witness ==
    /\ so_pc = "returned"
    /\ returns = <<1, 2>>
    /\ risk_free_rate = 2
    /\ periods_per_year = 2
    /\ sortino = << Zero >>

(***************************************************************************)
(* nav_fetcher.run                                                         *)
(*                                                                         *)
(* amfi_records holds the lines of the AMFI response, each with its number *)
(* of ";"-separated parts, its scheme code and the text of its NAV column. *)
(* sheet_records is what has been handed to sheets_writer for the          *)
(* NAV_History tab.  NAV values are in ten-thousandths.                    *)
(***************************************************************************)
MaxAmfiLines == 2

SchemeCodes == {"119551", "120503"}

NavTexts == {"52.3456", "N.A."}

AmfiLines ==
    { [parts |-> 6, scheme_code |-> c, nav_value |-> v] : c \in SchemeCodes, v \in NavTexts }
        \cup { [parts |-> 1, scheme_code |-> "BadLine", nav_value |-> ""] }

\* float(nav_value.strip()) succeeds.
IsFloatText(text) == text = "52.3456"

\* float(nav_value.strip())
Float(text) == CASE text = "52.3456" -> 523456

\* _parse_amfi_nav: lines with fewer than 6 parts and lines whose NAV is not
\* a number are skipped.
RECURSIVE _parse_amfi_nav(_)
_parse_amfi_nav(lines) ==
    IF lines = << >> THEN << >>
    ELSE LET line == Head(lines)
             rest == _parse_amfi_nav(Tail(lines))
         IN  IF line.parts < 6 THEN rest
             ELSE IF ~IsFloatText(line.nav_value) THEN rest
             ELSE <<[scheme_code |-> line.scheme_code, nav |-> Float(line.nav_value)]>> \o rest

InitNav ==
    /\ amfi_records \in UNION { [1..len -> AmfiLines] : len \in 0..MaxAmfiLines }
    /\ portfolio_scheme_codes \in SUBSET SchemeCodes
    /\ sheet_records = << >>
    /\ context = << >>
    /\ nav_pc = "input"
    /\ OthersIdle("nav")

\* run, when the request succeeds: parse, hand the records to
\* sheets_writer.append_timeseries, store them in the context.
NavFetcherRun ==
    /\ nav_pc = "input"
    /\ LET nav_records == _parse_amfi_nav(amfi_records)
       IN  /\ sheet_records' = sheet_records \o nav_records
           /\ context' = [nav_records |-> nav_records]
    /\ nav_pc' = "returned"
    /\ UNCHANGED <<amfi_records, portfolio_scheme_codes>>
    /\ OthersUnchanged("nav")

\* run, when requests.get or raise_for_status raises: the exception is
\* logged and raised again, nothing is written.
NavFetcherRequestFails ==
    /\ nav_pc = "input"
    /\ nav_pc' = "raised"
    /\ UNCHANGED <<amfi_records, portfolio_scheme_codes, sheet_records, context>>
    /\ OthersUnchanged("nav")

NextNav == NavFetcherRun \/ NavFetcherRequestFails

SpecNav == InitNav /\ [][NextNav]_vars

\* The records of recs whose scheme_code is in codes.
InPortfolio(recs, codes) == SelectSeq(recs, LAMBDA r : r.scheme_code \in codes)

\* C20: when config.portfolio_scheme_codes is non-empty, run writes to the
\* sheet and stores in context['nav_records'] only the parsed NAV records
\* whose scheme_code is in portfolio_scheme_codes; when it is empty, all
\* parsed records are written.
C20_OnlyPortfolioSchemesWritten ==
    nav_pc = "returned" =>
        LET parsed == _parse_amfi_nav(amfi_records)
        IN  IF portfolio_scheme_codes # {}
            THEN /\ sheet_records = InPortfolio(parsed, portfolio_scheme_codes)
                 /\ context.nav_records = InPortfolio(parsed, portfolio_scheme_codes)
            ELSE sheet_records = parsed

(***************************************************************************)
(* sheets_writer.append_timeseries                                         *)
(*                                                                         *)
(* A record is a Python dict in insertion order: a sequence of             *)
(* <<key, value>> items.  A tab is the sequence of its rows, a row the     *)
(* sequence of its cells.  api says how far the Sheets API answers during  *)
(* one call.                                                               *)
(***************************************************************************)
MaxCalls   == 3
MaxRecords == 1

\* "get_fails": _get_service or the read of A1 raises; "append_fails": the
\* append raises; "format_fails": _clear_tab_bold raises.
ApiOutcomes == {"ok", "get_fails", "append_fails", "format_fails"}

KeyNames == {"nav_date", "nav"}

SampleRecords ==
    { << <<"nav_date", "d1">>, <<"nav", "v1">> >>,
      << <<"nav", "v3">> >> }

RecordLists(maxlen) == UNION { [1..len -> SampleRecords] : len \in 0..maxlen }

\* list(record.keys())
DictKeys(record) == [ i \in 1..Len(record) |-> record[i][1] ]

\* record.get(key, default)
DictGetItem(record, key, default) ==
    IF \E i \in 1..Len(record) : record[i][1] = key
    THEN record[CHOOSE i \in 1..Len(record) : record[i][1] = key][2]
    ELSE default

\* _records_to_rows
_records_to_rows(records, include_header) ==
    IF records = << >> THEN << >>
    ELSE LET keys == DictKeys(records[1])
             rows == [ r \in 1..Len(records) |->
                         [ k \in 1..Len(keys) |-> DictGetItem(records[r], keys[k], "") ] ]
         IN  IF include_header THEN <<keys>> \o rows ELSE rows

\* Mutant of TabIsEmpty: the header is prepended on every call.
TabIsEmptyAlways(rows) == TRUE

\* not existing.get("values"), for the range A1 of the tab.
TabIsEmpty(rows) == rows = << >> \/ rows[1] = << >> \/ rows[1][1] = ""

\* append_timeseries(config, tab, records, logger) on a tab holding rows.
\* requests counts the Sheets API requests that were answered.
append_timeseries(rows, records, api) ==
    IF records = << >>
    THEN [raised |-> FALSE, value |-> 0, rows |-> rows, requests |-> 0]
    ELSE IF api = "get_fails"
    THEN [raised |-> TRUE, value |-> 0, rows |-> rows, requests |-> 0]
    ELSE LET tab_is_empty == TabIsEmpty(rows)
             new_rows     == _records_to_rows(records, tab_is_empty)
         IN  IF api = "append_fails"
             THEN [raised |-> TRUE, value |-> 0, rows |-> rows, requests |-> 1]
             ELSE IF tab_is_empty /\ api = "format_fails"
             THEN [raised |-> TRUE, value |-> 0, rows |-> rows \o new_rows, requests |-> 2]
             ELSE [raised |-> FALSE, value |-> Len(new_rows), rows |-> rows \o new_rows,
                   requests |-> IF tab_is_empty THEN 4 ELSE 2]

InitSheets ==
    /\ tab = << >>
    /\ calls = << >>
    /\ sh_pc = "ready"
    /\ OthersIdle("sheets")

\* One call of append_timeseries on the tab.
AppendTimeseries ==
    /\ sh_pc = "ready"
    /\ Len(calls) < MaxCalls
    /\ \E records \in RecordLists(MaxRecords), api \in ApiOutcomes :
          LET out == append_timeseries(tab, records, api)
          IN  /\ tab' = out.rows
              /\ calls' = Append(calls, [ records  |-> Len(records),
                                          raised   |-> out.raised,
                                          value    |-> out.value,
                                          requests |-> out.requests,
                                          before   |-> Len(tab),
                                          after    |-> Len(out.rows) ])
    /\ UNCHANGED sh_pc
    /\ OthersUnchanged("sheets")

NextSheets == AppendTimeseries

SpecSheets == InitSheets /\ [][NextSheets]_vars

\* A row of column names.
IsHeaderRow(row) == \E i \in 1..Len(row) : row[i] \in KeyNames

\* A call with an empty records list asks the API nothing, writes nothing
\* and returns 0.
EmptyCallsDoNothing ==
    \A i \in 1..Len(calls) :
        calls[i].records = 0
            => /\ ~calls[i].raised
               /\ calls[i].value = 0
               /\ calls[i].requests = 0
               /\ calls[i].after = calls[i].before

\* The tab has at most one header row, and it is the first row.
HeaderOnceOnTop ==
    /\ tab # << >> => IsHeaderRow(tab[1])
    /\ \A i \in 2..Len(tab) : ~IsHeaderRow(tab[i])

TOOL_NAMES ==
    << "nav_fetcher", "ter_fetcher", "composition_fetcher", "cams_parser",
       "peer_fetcher", "metrics_engine", "overlap_engine", "llm_analyst",
       "llm_advisor", "tax_engine", "sheets_writer" >>

\* json.dumps of a list of error messages.
JsonDumps(errors) ==
    IF errors = << >> THEN "[]" ELSE "[\"...\"]"

SampleResults ==
    { << <<"status", "success">>, <<"rows_written", 2>>, <<"errors", << >> >>,
         <<"duration_s", 1>> >>,
      << <<"status", "skipped">>, <<"rows_written", 0>>, <<"errors", << >> >>,
         <<"duration_s", 1>> >>,
      << <<"status", "partial">>, <<"rows_written", 1>>, <<"errors", <<"boom">> >>,
         <<"duration_s", 1>> >>,
      << >> }

RunLogHeader ==
    <<"timestamp", "tool_name", "status", "rows_written", "duration_s", "errors">>

\* The record log_tool_run builds.
RunLogRecord(tool_name, result) ==
    << <<"timestamp", "2026-02-27T00:00:00+00:00">>,
       <<"tool_name", tool_name>>,
       <<"status", DictGetItem(result, "status", "unknown")>>,
       <<"rows_written", DictGetItem(result, "rows_written", 0)>>,
       <<"duration_s", DictGetItem(result, "duration_s", 0)>>,
       <<"errors", JsonDumps(DictGetItem(result, "errors", << >>))>> >>

\* Mutant of log_tool_run: the exception of append_timeseries is not caught.
log_tool_run_uncaught(rows, tool_name, result, api) ==
    LET out == append_timeseries(rows, << RunLogRecord(tool_name, result) >>, api)
    IN  [raised |-> out.raised, warned |-> out.raised, rows |-> out.rows]

log_tool_run(rows, tool_name, result, api) ==
    LET out == append_timeseries(rows, << RunLogRecord(tool_name, result) >>, api)
    IN  [raised |-> FALSE, warned |-> out.raised, rows |-> out.rows]

InitRunLog ==
    /\ log_tab \in { << >>, << RunLogHeader >> }
    /\ log_tool_name \in { TOOL_NAMES[i] : i \in 1..Len(TOOL_NAMES) }
    /\ log_result \in SampleResults
    /\ log_api \in ApiOutcomes
    /\ log_warned = FALSE
    /\ log_pc = "start"
    /\ OthersIdle("runlog")

\* post_tool.run calls log_tool_run(config, tool_name, result).
LogToolRun ==
    /\ log_pc = "start"
    /\ LET out == log_tool_run(log_tab, log_tool_name, log_result, log_api)
       IN  /\ log_tab' = out.rows
           /\ log_warned' = out.warned
           /\ log_pc' = IF out.raised THEN "raised" ELSE "returned"
    /\ UNCHANGED <<log_tool_name, log_result, log_api>>
    /\ OthersUnchanged("runlog")

\* log_tool_run has returned: its caller goes on.
CallerContinues ==
    /\ log_pc = "returned"
    /\ log_pc' = "continued"
    /\ UNCHANGED <<log_tab, log_tool_name, log_result, log_api, log_warned>>
    /\ OthersUnchanged("runlog")

NextRunLog == LogToolRun \/ CallerContinues

SpecRunLog == InitRunLog /\ [][NextRunLog]_vars

\* C27: log_tool_run never propagates a failure of the Run_Log write:
\* whenever append_timeseries raises, log_tool_run returns normally and its
\* caller continues (the call is never left by an exception).
C27_RunLogFailureNotPropagated ==
    /\ log_pc # "raised"
    /\ log_warned => log_pc \in {"returned", "continued"}
    /\ (log_pc \in {"returned", "continued"} /\ log_api \in {"get_fails", "append_fails"})
          => log_warned

\* C27 witness: the append to Run_Log raised, log_tool_run returned and the
\* caller went on; nothing was written.
C27_Witness ==
    /\ log_pc = "continued"
    /\ log_api = "append_fails"
    /\ log_warned
    /\ log_tab = << >>

(***************************************************************************)
(* Python values shared by the tools                                       *)
(*                                                                         *)
(* The context dict and every result dict are dicts in insertion order:    *)
(* sequences of <<key, value>> items.  A value stored in the context       *)
(* carries its Python type, because the tools call .get on what they read  *)
(* back.  The spreadsheet is a function from tab names to rows.            *)
(***************************************************************************)
PyList(items) == [type |-> "list", items |-> items]
PyDict(items) == [type |-> "dict", items |-> items]
PyStr(text)   == [type |-> "str", items |-> text]

\* d[key] = value
DictSetItem(d, key, value) ==
    IF \E i \in 1..Len(d) : d[i][1] = key
    THEN [ i \in 1..Len(d) |-> IF d[i][1] = key THEN <<key, value>> ELSE d[i] ]
    ELSE Append(d, <<key, value>>)

\* The dict every run returns; duration_s is not modelled and reads 0.
ResultDict(status, rows_written, errors) ==
    << <<"status", status>>, <<"rows_written", rows_written>>, <<"errors", errors>>,
       <<"duration_s", 0>> >>

\* "success" if not errors else "partial"
StatusOf(errors) == IF errors = << >> THEN "success" ELSE "partial"

TabNames ==
    { "NAV_History", "TER_History", "Composition_History", "Transactions",
      "Peer_Comparison", "Metrics", "Overlap", "LLM_Analysis", "Recommendations",
      "Tax_Liability" }

EmptySheet == [ t \in TabNames |-> << >> ]

\* sheets_writer.append_timeseries(config, tab=name, records=records, ...)
WriteTab(sheet, name, records, api) ==
    LET out == append_timeseries(sheet[name], records, api)
    IN  [raised |-> out.raised, value |-> out.value,
         sheet |-> [sheet EXCEPT ![name] = out.rows]]

\* What a run gives back: a result dict or an exception, the context and
\* the spreadsheet as it leaves them, and the transaction list it handed to
\* its compute function, if it called one.
ToolReturned(result, ctx, sheet, passed) ==
    [raised |-> FALSE, exc |-> "", result |-> result, context |-> ctx, sheet |-> sheet,
     passed |-> passed]

ToolRaised(exc, ctx, sheet, passed) ==
    [raised |-> TRUE, exc |-> exc, result |-> << >>, context |-> ctx, sheet |-> sheet,
     passed |-> passed]

(***************************************************************************)
(* cams_parser.run                                                         *)
(*                                                                         *)
(* cams_files is the list of files found in data/cams in the order they    *)
(* are parsed (JSON files, then PDF files), each given by what its parser  *)
(* does: it raises, or it returns a list of transaction dicts.             *)
(***************************************************************************)
MaxCamsTxns == 3

CamsFolios == {"F1", "F2"}
CamsDates  == {"2024-01-01", "2024-01-02"}
CamsUnits  == {1, 2}
CamsSchemes == {"S1", "S2"}

CamsTxns ==
    { [folio |-> f, scheme_name |-> s, transaction_date |-> d, txn_type |-> "Purchase",
       amount |-> 100, units |-> u, nav |-> 10] :
        f \in CamsFolios, s \in CamsSchemes, d \in CamsDates, u \in CamsUnits }

CamsTxnLists(maxlen) == UNION { [1..len -> CamsTxns] : len \in 0..maxlen }

ParsedFile(txns) == [ok |-> TRUE, txns |-> txns]
FailedFile == [ok |-> FALSE, txns |-> << >>]

\* The transaction dict as written by the parsers, keys in insertion order.
TxnItems(t) ==
    << <<"folio", t.folio>>, <<"scheme_name", t.scheme_name>>,
       <<"transaction_date", t.transaction_date>>, <<"txn_type", t.txn_type>>,
       <<"amount", t.amount>>, <<"units", t.units>>, <<"nav", t.nav>> >>

\* Mutant of ParseAll: a file that fails to parse is recorded in errors and
\* the loop goes on.
RECURSIVE ParseAllKeepGoing(_, _, _)
ParseAllKeepGoing(files, errors, acc) ==
    IF files = << >> THEN [raised |-> FALSE, errors |-> errors, txns |-> acc]
    ELSE IF ~Head(files).ok
    THEN ParseAllKeepGoing(Tail(files), Append(errors, "parse error"), acc)
    ELSE ParseAllKeepGoing(Tail(files), errors, acc \o Head(files).txns)

\* The two parse loops: a file that fails is recorded in errors and the
\* exception is raised again.
RECURSIVE ParseAll(_, _, _)
ParseAll(files, errors, acc) ==
    IF files = << >> THEN [raised |-> FALSE, errors |-> errors, txns |-> acc]
    ELSE IF ~Head(files).ok
    THEN [raised |-> TRUE, errors |-> Append(errors, "parse error"), txns |-> acc]
    ELSE ParseAll(Tail(files), errors, acc \o Head(files).txns)

\* Mutant of DedupKey: the units are left out of the key.
DedupKeyNoUnits(txn) == <<txn.folio, txn.transaction_date>>

\* key = (txn["folio"], txn["transaction_date"], txn["units"])
DedupKey(txn) == <<txn.folio, txn.transaction_date, txn.units>>

\* The deduplication loop.
RECURSIVE DedupLoop(_, _, _)
DedupLoop(all_transactions, seen, deduped) ==
    IF all_transactions = << >> THEN deduped
    ELSE LET txn == Head(all_transactions)
             key == DedupKey(txn)
         IN  IF key \notin seen
             THEN DedupLoop(Tail(all_transactions), seen \cup {key}, Append(deduped, txn))
             ELSE DedupLoop(Tail(all_transactions), seen, deduped)

Dedup(all_transactions) == DedupLoop(all_transactions, {}, << >>)

cams_parser_run(ctx, sheet, files, api) ==
    IF files = << >>
    THEN ToolReturned(ResultDict("skipped", 0, << >>), ctx, sheet, << >>)
    ELSE LET parsed == ParseAll(files, << >>, << >>)
         IN  IF parsed.raised
             THEN ToolRaised("Exception", ctx, sheet, << >>)
             ELSE LET deduped == Dedup(parsed.txns)
                      written == WriteTab(sheet, "Transactions",
                                          [ i \in 1..Len(deduped) |-> TxnItems(deduped[i]) ],
                                          api)
                  IN  IF written.raised
                      THEN ToolRaised("Exception", ctx, written.sheet, << >>)
                      ELSE ToolReturned(
                               ResultDict(StatusOf(parsed.errors), written.value,
                                          parsed.errors),
                               DictSetItem(ctx, "transactions", PyList(deduped)),
                               written.sheet, << >>)

CamsFileLists ==
    { << >>, << FailedFile >> }
        \cup { << ParsedFile(l) >> : l \in CamsTxnLists(MaxCamsTxns) }
        \cup { << ParsedFile(l), ParsedFile(m) >> : l, m \in CamsTxnLists(1) }
        \cup { << ParsedFile(l), FailedFile >> : l \in CamsTxnLists(1) }

InitCams ==
    /\ cams_files \in CamsFileLists
    /\ cams_api \in {"ok", "append_fails"}
    /\ cams_sheet = EmptySheet
    /\ cams_context = << >>
    /\ cams_result = << >>
    /\ cams_pc = "start"
    /\ OthersIdle("cams")

\* One call cams_parser.run(config, logger, context).
CamsParserRun ==
    /\ cams_pc = "start"
    /\ LET out == cams_parser_run(cams_context, cams_sheet, cams_files, cams_api)
       IN  /\ cams_context' = out.context
           /\ cams_sheet' = out.sheet
           /\ cams_result' = IF out.raised THEN << >> ELSE << out.result >>
           /\ cams_pc' = IF out.raised THEN "raised" ELSE "returned"
    /\ UNCHANGED <<cams_files, cams_api>>
    /\ OthersUnchanged("cams")

NextCams == CamsParserRun

SpecCams == InitCams /\ [][NextCams]_vars

\* All the transactions of the files, in parse order.
RECURSIVE AllParsed(_)
AllParsed(files) ==
    IF files = << >> THEN << >> ELSE Head(files).txns \o AllParsed(Tail(files))

\* The positions of a list that hold the first transaction of their
\* (folio, transaction_date, units).
FirstOccurrences(txns) ==
    { i \in 1..Len(txns) :
        \A j \in 1..(i - 1) :
            <<txns[j].folio, txns[j].transaction_date, txns[j].units>>
                # <<txns[i].folio, txns[i].transaction_date, txns[i].units>> }

\* The k-th smallest member of a set of positions.
KthOf(positions, k) ==
    CHOOSE i \in positions : Cardinality({ j \in positions : j <= i }) = k

\* C21: the list cams_parser.run stores in context['transactions'] has no
\* two transactions with the same (folio, transaction_date, units), holds the
\* first occurrence of every key of the input, in input order, and
\* deduplicating it again changes nothing.
C21_DedupKeepsFirstOccurrences ==
    (cams_pc = "returned" /\ cams_files # << >>) =>
        LET input  == AllParsed(cams_files)
            stored == DictGetItem(cams_context, "transactions", PyList(<<"unset">>)).items
            first  == FirstOccurrences(input)
        IN  /\ Len(stored) = Cardinality(first)
            /\ \A k \in 1..Len(stored) : stored[k] = input[KthOf(first, k)]
            /\ \A i, j \in 1..Len(stored) :
                  i # j =>
                    <<stored[i].folio, stored[i].transaction_date, stored[i].units>>
                      # <<stored[j].folio, stored[j].transaction_date, stored[j].units>>
            /\ Dedup(stored) = stored

\* C21 witness: of three parsed transactions the third repeats the key of
\* the first under another scheme name; the first two are stored.
C21_Witness ==
    /\ cams_pc = "returned"
    /\ Len(cams_files) = 1
    /\ Len(cams_files[1].txns) = 3
    /\ DedupKey(cams_files[1].txns[3]) = DedupKey(cams_files[1].txns[1])
    /\ cams_files[1].txns[3] # cams_files[1].txns[1]
    /\ DedupKey(cams_files[1].txns[2]) # DedupKey(cams_files[1].txns[1])
    /\ DictGetItem(cams_context, "transactions", PyList(<< >>)).items
          = SubSeq(cams_files[1].txns, 1, 2)

(***************************************************************************)
(* cams_parser._normalise_txn_type and the transaction types the parsers   *)
(* accept                                                                  *)
(*                                                                         *)
(* A Python str is the sequence of its characters.                         *)
(***************************************************************************)
UpperCase == <<"A", "B", "C", "D", "E", "F", "G", "H", "I", "J", "K", "L", "M", "N", "O", "P", "Q", "R", "S", "T", "U", "V", "W", "X", "Y", "Z">>
LowerCase == <<"a", "b", "c", "d", "e", "f", "g", "h", "i", "j", "k", "l", "m", "n", "o", "p", "q", "r", "s", "t", "u", "v", "w", "x", "y", "z">>
DigitChars == {"0", "1", "2", "3", "4", "5", "6", "7", "8", "9"}

\* str.lower() and str.upper()
ToLower(s) ==
    [ i \in 1..Len(s) |->
        IF \E k \in 1..26 : UpperCase[k] = s[i]
        THEN LowerCase[CHOOSE k \in 1..26 : UpperCase[k] = s[i]]
        ELSE s[i] ]

ToUpper(s) ==
    [ i \in 1..Len(s) |->
        IF \E k \in 1..26 : LowerCase[k] = s[i]
        THEN UpperCase[CHOOSE k \in 1..26 : LowerCase[k] = s[i]]
        ELSE s[i] ]

\* str.strip()
RECURSIVE Strip(_)
Strip(s) ==
    IF s = << >> THEN s
    ELSE IF Head(s) = " " THEN Strip(Tail(s))
    ELSE IF s[Len(s)] = " " THEN Strip(SubSeq(s, 1, Len(s) - 1))
    ELSE s

\* sub in s
Contains(sub, s) ==
    \E i \in 0..(Len(s) - Len(sub)) : SubSeq(s, i + 1, i + Len(sub)) = sub

_FINANCIAL_TXN_TYPES ==
    { <<"p", "u", "r", "c", "h", "a", "s", "e">>,
      <<"p", "u", "r", "c", "h", "a", "s", "e", " ", "s", "y", "s", "t", "e", "m", "a", "t", "i", "c">>,
      <<"p", "u", "r", "c", "h", "a", "s", "e", " ", "(", "c", "o", "n", "t", "i", "n", "u", "o", "u", "s", " ", "o", "f", "f", "e", "r", ")">>,
      <<"r", "e", "d", "e", "m", "p", "t", "i", "o", "n">>,
      <<"r", "e", "d", "e", "m", "p", "t", "i", "o", "n", " ", "o", "f", " ", "u", "n", "i", "t", "s">>,
      <<"r", "e", "d", "e", "m", "p", "t", "i", "o", "n", " ">>,
      <<"s", "w", "i", "t", "c", "h", "-", "i", "n">>,
      <<"s", "w", "i", "t", "c", "h", " ", "o", "u", "t">>,
      <<"s", "y", "s", "t", "e", "m", "a", "t", "i", "c", " ", "s", "w", "i", "t", "c", "h", " ", "i", "n">>,
      <<"s", "y", "s", "t", "e", "m", "a", "t", "i", "c", " ", "t", "r", "a", "n", "s", "f", "e", "r", " ", "t", "o", " ", "-", " ">>,
      <<"s", "y", "s", "t", "e", "m", "a", "t", "i", "c", " ", "t", "r", "a", "n", "s", "f", "e", "r", " ", "f", "r", "o", "m", " ", "-", " ">> }

CanonicalTxnTypes ==
    { <<"P", "u", "r", "c", "h", "a", "s", "e">>,
      <<"S", "I", "P">>,
      <<"R", "e", "d", "e", "m", "p", "t", "i", "o", "n">>,
      <<"S", "w", "i", "t", "c", "h", "-", "I", "n">>,
      <<"S", "w", "i", "t", "c", "h", "-", "O", "u", "t">> }

_normalise_txn_type(raw) ==
    LET lower == ToLower(Strip(raw))
    IN  IF Contains(<<"p", "u", "r", "c", "h", "a", "s", "e", " ", "s", "y", "s", "t", "e", "m", "a", "t", "i", "c">>, lower)
           \/ ( /\ Contains(<<"s", "y", "s", "t", "e", "m", "a", "t", "i", "c">>, lower)
                /\ ~Contains(<<"s", "w", "i", "t", "c", "h">>, lower)
                /\ ~Contains(<<"t", "r", "a", "n", "s", "f", "e", "r">>, lower) )
        THEN <<"S", "I", "P">>
        ELSE IF Contains(<<"p", "u", "r", "c", "h", "a", "s", "e">>, lower) THEN <<"P", "u", "r", "c", "h", "a", "s", "e">>
        ELSE IF Contains(<<"r", "e", "d", "e", "m", "p", "t", "i", "o", "n">>, lower) THEN <<"R", "e", "d", "e", "m", "p", "t", "i", "o", "n">>
        ELSE IF Contains(<<"s", "w", "i", "t", "c", "h">>, lower) /\ Contains(<<"i", "n">>, lower)
        THEN <<"S", "w", "i", "t", "c", "h", "-", "I", "n">>
        ELSE IF Contains(<<"s", "w", "i", "t", "c", "h">>, lower) /\ Contains(<<"o", "u", "t">>, lower)
        THEN <<"S", "w", "i", "t", "c", "h", "-", "O", "u", "t">>
        ELSE Strip(raw)

\* _parse_cams_json on one record with AMOUNT and UNITS present: the type
\* the appended transaction gets, or no transaction.
JsonRecordType(transaction_type) ==
    LET raw == Strip(transaction_type)
    IN  IF raw = << >> \/ ToLower(raw) \notin _FINANCIAL_TXN_TYPES
        THEN [appended |-> FALSE, txn_type |-> << >>]
        ELSE [appended |-> TRUE, txn_type |-> << _normalise_txn_type(raw) >>]

\* The second group of _TXN_RE, matched without regard to case:
\* Purchase|SIP|Redemption|Switch(?:-In|-Out)?|Systematic[^\d]+?
PdfTypeGroupMatches(text) ==
    \/ ToLower(text) \in { <<"p", "u", "r", "c", "h", "a", "s", "e">>,
                           <<"s", "i", "p">>,
                           <<"r", "e", "d", "e", "m", "p", "t", "i", "o", "n">>,
                           <<"s", "w", "i", "t", "c", "h">>,
                           <<"s", "w", "i", "t", "c", "h", "-", "i", "n">>,
                           <<"s", "w", "i", "t", "c", "h", "-", "o", "u", "t">> }
    \/ /\ Len(text) > 10
       /\ ToLower(SubSeq(text, 1, 10)) = <<"s", "y", "s", "t", "e", "m", "a", "t", "i", "c">>
       /\ \A i \in 11..Len(text) : text[i] \notin DigitChars

\* _parse_cams_pdf on one line whose type column reads text.
PdfLineType(text) ==
    IF ~PdfTypeGroupMatches(text)
    THEN [appended |-> FALSE, txn_type |-> << >>]
    ELSE [appended |-> TRUE, txn_type |-> << _normalise_txn_type(text) >>]

RawHeads ==
    { <<"P", "u", "r", "c", "h", "a", "s", "e">>,
      <<"S", "I", "P">>,
      <<"R", "e", "d", "e", "m", "p", "t", "i", "o", "n">>,
      <<"S", "w", "i", "t", "c", "h">>,
      <<"S", "y", "s", "t", "e", "m", "a", "t", "i", "c">> }

RawSuffixes ==
    { << >>,
      <<" ", "S", "y", "s", "t", "e", "m", "a", "t", "i", "c">>,
      <<" ", "(", "C", "o", "n", "t", "i", "n", "u", "o", "u", "s", " ", "O", "f", "f", "e", "r", ")">>,
      <<" ", "o", "f", " ", "U", "n", "i", "t", "s">>,
      <<"-", "I", "n">>,
      <<"-", "O", "u", "t">>,
      <<" ", "I", "n">>,
      <<" ", "O", "u", "t">>,
      <<" ", "S", "w", "i", "t", "c", "h", " ", "I", "n">>,
      <<" ", "S", "w", "i", "t", "c", "h", " ", "O", "u", "t">>,
      <<" ", "T", "r", "a", "n", "s", "f", "e", "r">>,
      <<" ", "T", "r", "a", "n", "s", "f", "e", "r", " ", "T", "o", " ", "-">>,
      <<" ", "T", "r", "a", "n", "s", "f", "e", "r", " ", "F", "r", "o", "m", " ", "-">>,
      <<" ", "I", "n", "v", "e", "s", "t", "m", "e", "n", "t">>,
      <<" ">> }

\* The raw types tried: a head and a suffix, as written, in lower case or
\* in upper case.
RawTxnTypes ==
    LET written == { h \o x : h \in RawHeads, x \in RawSuffixes }
    IN  written \cup { ToLower(w) : w \in written } \cup { ToUpper(w) : w \in written }

InitTxnType ==
    /\ txn_type_raw \in RawTxnTypes
    /\ txn_source \in {"json", "pdf"}
    /\ parsed_txn_type = << >>
    /\ tt_pc = "input"
    /\ OthersIdle("txntype")

\* One iteration of the record loop of _parse_cams_json, or of the line
\* loop of _parse_cams_pdf.
ParseTxnType ==
    /\ tt_pc = "input"
    /\ LET out == IF txn_source = "json" THEN JsonRecordType(txn_type_raw)
                  ELSE PdfLineType(txn_type_raw)
       IN  /\ parsed_txn_type' = out.txn_type
           /\ tt_pc' = IF out.appended THEN "appended" ELSE "skipped"
    /\ UNCHANGED <<txn_type_raw, txn_source>>
    /\ OthersUnchanged("txntype")

NextTxnType == ParseTxnType

SpecTxnType == InitTxnType /\ [][NextTxnType]_vars

\* C22: every transaction that _parse_cams_json or _parse_cams_pdf returns
\* has txn_type in {Purchase, SIP, Redemption, Switch-In, Switch-Out}, for
\* every raw transaction type the parser accepts.
C22_TxnTypeCanonical ==
    tt_pc = "appended" => parsed_txn_type[1] \in CanonicalTxnTypes

\* ---------------------------------------------------------------------------
\* The run function of every tool
\* ---------------------------------------------------------------------------

\* context.get(key1, {}).get(key2, []): the inner get raises AttributeError
\* when context[key1] is not a dict.
ContextGetGet(ctx, key1, key2) ==
    LET outer == DictGetItem(ctx, key1, PyDict(<< >>))
    IN  IF outer.type # "dict"
        THEN [raised |-> TRUE, value |-> PyList(<< >>)]
        ELSE [raised |-> FALSE, value |-> DictGetItem(outer.items, key2, PyList(<< >>))]

\* The NAV record dict of _parse_amfi_nav, keys in insertion order.
NavItems(r) == << <<"scheme_code", r.scheme_code>>, <<"nav", r.nav>> >>

\* nav_fetcher.run
nav_fetcher_run(ctx, sheet, env) ==
    IF ~env.nav_ok
    THEN ToolRaised("RequestException", ctx, sheet, << >>)
    ELSE LET nav_records == _parse_amfi_nav(env.lines)
             written == WriteTab(sheet, "NAV_History",
                                 [ i \in 1..Len(nav_records) |-> NavItems(nav_records[i]) ],
                                 env.api)
         IN  IF written.raised
             THEN ToolRaised("Exception", ctx, written.sheet, << >>)
             ELSE ToolReturned(ResultDict(StatusOf(<< >>), written.value, << >>),
                               DictSetItem(ctx, "nav_records", PyList(nav_records)),
                               written.sheet, << >>)

\* _fetch_ter_records, _fetch_compositions and _fetch_peer_data return [].
_fetch_ter_records == << >>
_fetch_compositions == << >>
_fetch_peer_data == << >>

\* The run of ter_fetcher, composition_fetcher and peer_fetcher: read the NAV
\* records of nav_fetcher's result, fetch, write the tab, store the records.
FetcherRun(ctx, sheet, env, fetched, tab_name, key) ==
    LET nav_records == ContextGetGet(ctx, "nav_fetcher", "nav_records")
    IN  IF nav_records.raised
        THEN ToolRaised("AttributeError", ctx, sheet, << >>)
        ELSE LET written == WriteTab(sheet, tab_name, fetched, env.api)
             IN  IF written.raised
                 THEN ToolRaised("Exception", ctx, written.sheet, << >>)
                 ELSE ToolReturned(ResultDict(StatusOf(<< >>), written.value, << >>),
                                   DictSetItem(ctx, key, PyList(fetched)),
                                   written.sheet, << >>)

ter_fetcher_run(ctx, sheet, env) ==
    FetcherRun(ctx, sheet, env, _fetch_ter_records, "TER_History", "ter_records")

composition_fetcher_run(ctx, sheet, env) ==
    FetcherRun(ctx, sheet, env, _fetch_compositions, "Composition_History",
               "composition_records")

peer_fetcher_run(ctx, sheet, env) ==
    FetcherRun(ctx, sheet, env, _fetch_peer_data, "Peer_Comparison", "peer_records")

\* metrics_engine.run
metrics_engine_run(ctx, sheet, env) ==
    LET the_transactions == ContextGetGet(ctx, "cams_parser", "transactions")
        nav_records == ContextGetGet(ctx, "nav_fetcher", "nav_records")
    IN  IF the_transactions.raised \/ nav_records.raised
        THEN ToolRaised("AttributeError", ctx, sheet, << >>)
        ELSE LET passed == <<[tool |-> "metrics_engine",
                              transactions |-> the_transactions.value.items]>>
                 the_metrics == compute_all_metrics(the_transactions.value.items,
                                                nav_records.value.items)
                 written == WriteTab(sheet, "Metrics", the_metrics, env.api)
             IN  IF written.raised
                 THEN ToolRaised("Exception", ctx, written.sheet, passed)
                 ELSE ToolReturned(ResultDict(StatusOf(<< >>), written.value, << >>),
                                   DictSetItem(ctx, "metrics", PyList(the_metrics)),
                                   written.sheet, passed)

\* tax_engine.run
tax_engine_run(ctx, sheet, env) ==
    LET the_transactions == ContextGetGet(ctx, "cams_parser", "transactions")
        nav_records == ContextGetGet(ctx, "nav_fetcher", "nav_records")
    IN  IF the_transactions.raised \/ nav_records.raised
        THEN ToolRaised("AttributeError", ctx, sheet, << >>)
        ELSE LET passed == <<[tool |-> "tax_engine",
                              transactions |-> the_transactions.value.items]>>
                 the_tax_records == compute_tax_liability(the_transactions.value.items)
                 written == WriteTab(sheet, "Tax_Liability", the_tax_records, env.api)
             IN  IF written.raised
                 THEN ToolRaised("Exception", ctx, written.sheet, passed)
                 ELSE ToolReturned(ResultDict(StatusOf(<< >>), written.value, << >>),
                                   DictSetItem(ctx, "tax_records", PyList(the_tax_records)),
                                   written.sheet, passed)

\* The overlap record dict, keys in insertion order.
OverlapItems(r) ==
    << <<"fund_a", r.fund_a>>, <<"fund_b", r.fund_b>>,
       <<"jaccard_overlap", r.jaccard_overlap>>,
       <<"weighted_overlap_pct", r.weighted_overlap_pct>>,
       <<"common_stocks", r.common_stocks>> >>

\* overlap_engine.run
overlap_engine_run(ctx, sheet, env) ==
    LET the_composition_records ==
            ContextGetGet(ctx, "composition_fetcher", "composition_records")
    IN  IF the_composition_records.raised
        THEN ToolRaised("AttributeError", ctx, sheet, << >>)
        ELSE LET out == compute_pairwise_overlap(the_composition_records.value.items, "str")
             IN  IF out.status # "returned"
                 THEN ToolRaised("Exception", ctx, sheet, << >>)
                 ELSE LET the_overlap_records == out.results
                          written == WriteTab(sheet, "Overlap",
                                              [ i \in 1..Len(the_overlap_records) |->
                                                    OverlapItems(the_overlap_records[i]) ],
                                              env.api)
                      IN  IF written.raised
                          THEN ToolRaised("Exception", ctx, written.sheet, << >>)
                          ELSE ToolReturned(
                                   ResultDict(StatusOf(<< >>), written.value, << >>),
                                   DictSetItem(ctx, "overlap_records",
                                               PyList(the_overlap_records)),
                                   written.sheet, << >>)

\* llm_analyst.run: both reads come before the test of metrics.
llm_analyst_run(ctx, sheet, env) ==
    LET the_metrics == ContextGetGet(ctx, "metrics", "metrics")
        peer_records == ContextGetGet(ctx, "peer_records", "peer_records")
    IN  IF the_metrics.raised \/ peer_records.raised
        THEN ToolRaised("AttributeError", ctx, sheet, << >>)
        ELSE IF the_metrics.value.items = << >>
        THEN ToolReturned(ResultDict("skipped", 0, << >>), ctx, sheet, << >>)
        ELSE IF ~env.llm_ok
        THEN ToolRaised("APIError", ctx, sheet, << >>)
        ELSE LET written == WriteTab(sheet, "LLM_Analysis",
                                     << << <<"analysis_text", "analysis">> >> >>, env.api)
             IN  IF written.raised
                 THEN ToolRaised("Exception", ctx, written.sheet, << >>)
                 ELSE ToolReturned(ResultDict(StatusOf(<< >>), written.value, << >>),
                                   DictSetItem(ctx, "llm_analysis", PyStr("analysis")),
                                   written.sheet, << >>)

\* llm_advisor.run
llm_advisor_run(ctx, sheet, env) ==
    LET the_metrics == DictGetItem(ctx, "metrics", PyList(<< >>))
    IN  IF the_metrics.items = << >>
        THEN ToolReturned(ResultDict("skipped", 0, << >>), ctx, sheet, << >>)
        ELSE IF ~env.llm_ok
        THEN ToolRaised("APIError", ctx, sheet, << >>)
        ELSE LET written == WriteTab(sheet, "Recommendations",
                                     << << <<"recommendations_text", "advice">> >> >>,
                                     env.api)
             IN  IF written.raised
                 THEN ToolRaised("Exception", ctx, written.sheet, << >>)
                 ELSE ToolReturned(ResultDict(StatusOf(<< >>), written.value, << >>),
                                   DictSetItem(ctx, "recommendations", PyStr("advice")),
                                   written.sheet, << >>)

\* sheets_writer.run: the connectivity check.
sheets_writer_run(ctx, sheet, env) ==
    IF env.api = "get_fails"
    THEN ToolRaised("HttpError", ctx, sheet, << >>)
    ELSE ToolReturned(ResultDict("success", 0, << >>), ctx, sheet, << >>)

\* tool_module.run(config=config, logger=..., context=context)
ToolRun(tool_name, ctx, sheet, env) ==
    CASE tool_name = "nav_fetcher" -> nav_fetcher_run(ctx, sheet, env)
      [] tool_name = "ter_fetcher" -> ter_fetcher_run(ctx, sheet, env)
      [] tool_name = "composition_fetcher" -> composition_fetcher_run(ctx, sheet, env)
      [] tool_name = "cams_parser" -> cams_parser_run(ctx, sheet, env.files, env.api)
      [] tool_name = "peer_fetcher" -> peer_fetcher_run(ctx, sheet, env)
      [] tool_name = "metrics_engine" -> metrics_engine_run(ctx, sheet, env)
      [] tool_name = "overlap_engine" -> overlap_engine_run(ctx, sheet, env)
      [] tool_name = "llm_analyst" -> llm_analyst_run(ctx, sheet, env)
      [] tool_name = "llm_advisor" -> llm_advisor_run(ctx, sheet, env)
      [] tool_name = "tax_engine" -> tax_engine_run(ctx, sheet, env)
      [] tool_name = "sheets_writer" -> sheets_writer_run(ctx, sheet, env)

\* ---------------------------------------------------------------------------
\* main.run_workflow
\* ---------------------------------------------------------------------------

\* What the AMFI endpoint, the statement files, the Sheets API and the LLM
\* APIs answer during one execution.
SampleLine == [parts |-> 6, scheme_code |-> "119551", nav_value |-> "52.3456"]
BadLine == [parts |-> 1, scheme_code |-> "BadLine", nav_value |-> ""]
WorkflowLines == { << >>, <<SampleLine>>, <<SampleLine, BadLine>> }

SampleTxn(folio) ==
    [folio |-> folio, scheme_name |-> "S1", transaction_date |-> "2024-01-01",
     txn_type |-> "Purchase", amount |-> 100, units |-> 1, nav |-> 10]

WorkflowFiles ==
    { << >>,
      <<FailedFile>>,
      <<ParsedFile(<< >>)>>,
      <<ParsedFile(<<SampleTxn("F1"), SampleTxn("F1")>>)>>,
      <<ParsedFile(<<SampleTxn("F1")>>), ParsedFile(<<SampleTxn("F2"), SampleTxn("F1")>>)>>,
      <<ParsedFile(<<SampleTxn("F1")>>), FailedFile>> }

ToolNameSet == { TOOL_NAMES[i] : i \in 1..Len(TOOL_NAMES) }

Envs(tools) ==
    [tool : tools, nav_ok : BOOLEAN, lines : WorkflowLines, files : WorkflowFiles,
     api : ApiOutcomes, llm_ok : BOOLEAN]

\* The except clause of the loop logs the exception and re-raises it.
AfterToolSwallowed(out) == "between"

AfterTool(out) == IF out.raised THEN "raised" ELSE "between"

InitWorkflow ==
    /\ wf_env \in Envs({""})
    /\ wf_context = << >>
    /\ wf_sheet = EmptySheet
    /\ wf_results = << >>
    /\ wf_calls = << >>
    /\ wf_passed = << >>
    /\ wf_summary = << >>
    /\ wf_pc = "between"
    /\ OthersIdle("workflow")

\* The head of the for loop: the next tool of TOOLS_IN_ORDER is called, or
\* the list is exhausted and the summary is returned.
LoopStep ==
    /\ wf_pc = "between"
    /\ IF Len(wf_calls) < Len(TOOL_NAMES)
       THEN /\ wf_calls' = Append(wf_calls, TOOL_NAMES[Len(wf_calls) + 1])
            /\ wf_pc' = "in_tool"
            /\ UNCHANGED wf_summary
       ELSE /\ wf_summary' = << <<"tools", wf_results>>, <<"total_duration_s", 0>> >>
            /\ wf_pc' = "returned"
            /\ UNCHANGED wf_calls
    /\ UNCHANGED <<wf_env, wf_context, wf_sheet, wf_results, wf_passed>>
    /\ OthersUnchanged("workflow")

\* The tool returns its result: results[tool_name] = result and
\* context[tool_name] = result.
ToolReturns ==
    /\ wf_pc = "in_tool"
    /\ LET tool_name == wf_calls[Len(wf_calls)]
           out == ToolRun(tool_name, wf_context, wf_sheet, wf_env)
       IN  /\ ~out.raised
           /\ wf_results' = DictSetItem(wf_results, tool_name, out.result)
           /\ wf_context' = DictSetItem(out.context, tool_name, PyDict(out.result))
           /\ wf_sheet' = out.sheet
           /\ wf_passed' = wf_passed \o out.passed
           /\ wf_pc' = AfterTool(out)
    /\ UNCHANGED <<wf_env, wf_calls, wf_summary>>
    /\ OthersUnchanged("workflow")

\* The tool raises: the exception leaves run_workflow.
ToolRaises ==
    /\ wf_pc = "in_tool"
    /\ LET tool_name == wf_calls[Len(wf_calls)]
           out == ToolRun(tool_name, wf_context, wf_sheet, wf_env)
       IN  /\ out.raised
           /\ wf_context' = out.context
           /\ wf_sheet' = out.sheet
           /\ wf_passed' = wf_passed \o out.passed
           /\ wf_pc' = AfterTool(out)
    /\ UNCHANGED <<wf_env, wf_results, wf_calls, wf_summary>>
    /\ OthersUnchanged("workflow")

NextWorkflow == LoopStep \/ ToolReturns \/ ToolRaises

SpecWorkflow == InitWorkflow /\ [][NextWorkflow]_vars

\* The tools whose run has returned, in the order results received them.
ReturnedTools == [ i \in 1..Len(wf_results) |-> wf_results[i][1] ]

\* The number of invoked tools that are no longer running or have not raised.
CompletedCalls ==
    IF wf_pc \in {"in_tool", "raised"} THEN Len(wf_calls) - 1 ELSE Len(wf_calls)

\* C23: in run_workflow the tools are invoked one at a time in the order of
\* TOOLS_IN_ORDER, each at most once, and a tool is invoked only when every
\* earlier tool has returned; when a tool raises no later tool is invoked
\* and no summary is returned.
C23_ToolsRunInOrderUntilOneRaises ==
    /\ [](/\ wf_calls = SubSeq(TOOL_NAMES, 1, Len(wf_calls))
          /\ ReturnedTools = SubSeq(TOOL_NAMES, 1, CompletedCalls)
          /\ (wf_pc = "raised" => wf_summary = << >>)
          /\ (wf_summary # << >> => ReturnedTools = TOOL_NAMES))
    /\ [][wf_pc = "raised" => (wf_calls' = wf_calls /\ wf_summary' = wf_summary
                               /\ wf_pc' = "raised")]_vars

\* cams_parser raises as the fourth tool: three results, no summary.
C23_Witness ==
    /\ wf_pc = "raised"
    /\ wf_calls = SubSeq(TOOL_NAMES, 1, 4)
    /\ Len(wf_results) = 3

\* The position of a tool in TOOLS_IN_ORDER.
ToolIndex(tool_name) == CHOOSE i \in 1..Len(TOOL_NAMES) : TOOL_NAMES[i] = tool_name

\* The run of the tool was invoked and is over, by a return or by a raise.
HasRun(tool_name) ==
    \/ Len(wf_calls) > ToolIndex(tool_name)
    \/ Len(wf_calls) = ToolIndex(tool_name) /\ wf_pc # "in_tool"

\* C24: when metrics_engine has run earlier in the workflow and produced no
\* metric records, llm_analyst.run does not raise and returns a result with
\* status "skipped", rows_written 0 and an empty errors list.
C24_AnalystSkipsWithoutMetrics ==
    (/\ HasRun("llm_analyst")
     /\ "metrics_engine" \in { wf_results[i][1] : i \in 1..Len(wf_results) }
     /\ DictGetItem(wf_context, "metrics", PyList(<<"none">>)).items = << >>)
    => /\ ~(wf_pc = "raised" /\ wf_calls[Len(wf_calls)] = "llm_analyst")
       /\ DictGetItem(wf_results, "llm_analyst", << >>) = ResultDict("skipped", 0, << >>)

\* C25: the transaction list handed to compute_all_metrics and to
\* compute_tax_liability in a workflow is the deduplicated list cams_parser
\* stored in this execution, empty only when cams_parser produced none.
C25_ComputeGetsDedupedTransactions ==
    \A i \in 1..Len(wf_passed) :
        wf_passed[i].transactions
            = DictGetItem(wf_context, "transactions", PyList(<< >>)).items

\* ---------------------------------------------------------------------------
\* One run of one tool on a given context
\* ---------------------------------------------------------------------------

\* A metric record as the LLM tools read it.
SampleMetric == << <<"scheme_name", "S1">>, <<"xirr", 1>> >>

\* Contexts a run can be given: empty; as run_workflow leaves it after
\* metrics_engine; with a dict or a non-empty list under "metrics"; with
\* dicts holding transactions and NAV records under the tool names.
SampleContext(k) ==
    CASE k = 1 -> << >>
      [] k = 2 -> << <<"nav_records", PyList(<< >>)>>,
                     <<"nav_fetcher", PyDict(ResultDict("success", 0, << >>))>>,
                     <<"cams_parser", PyDict(ResultDict("skipped", 0, << >>))>>,
                     <<"metrics", PyList(<< >>)>>,
                     <<"metrics_engine", PyDict(ResultDict("success", 0, << >>))>> >>
      [] k = 3 -> << <<"metrics", PyDict(<< <<"metrics", PyList(<<SampleMetric>>)>> >>)>> >>
      [] k = 4 -> << <<"metrics", PyList(<<SampleMetric>>)>> >>
      [] k = 5 -> << <<"cams_parser",
                       PyDict(<< <<"transactions", PyList(<<SampleTxn("F1")>>)>> >>)>>,
                     <<"nav_fetcher", PyDict(<< <<"nav_records", PyList(<< >>)>> >>)>> >>

InitTools ==
    /\ wf_env \in Envs(ToolNameSet)
    /\ \E k \in 1..5 : wf_context = SampleContext(k)
    /\ wf_sheet = EmptySheet
    /\ wf_results = << >>
    /\ wf_calls = << >>
    /\ wf_passed = << >>
    /\ wf_summary = << >>
    /\ wf_pc = "alone"
    /\ OthersIdle("workflow")

\* tool.run(config, logger, context), called once.
RunTool ==
    /\ wf_pc = "alone"
    /\ LET out == ToolRun(wf_env.tool, wf_context, wf_sheet, wf_env)
       IN  /\ wf_calls' = <<wf_env.tool>>
           /\ wf_results' = IF out.raised THEN << >> ELSE << <<wf_env.tool, out.result>> >>
           /\ wf_context' = out.context
           /\ wf_sheet' = out.sheet
           /\ wf_passed' = out.passed
           /\ wf_pc' = IF out.raised THEN "raised" ELSE "returned"
    /\ UNCHANGED <<wf_env, wf_summary>>
    /\ OthersUnchanged("workflow")

NextTools == RunTool

SpecTools == InitTools /\ [][NextTools]_vars

\* C28: every result dict a tool's run returns has status "success" or
\* "skipped" and an empty errors list; "partial" is never returned.
C28_ReturnedResultsHaveNoErrors ==
    \A i \in 1..Len(wf_results) :
        /\ DictGetItem(wf_results[i][2], "status", "") \in {"success", "skipped"}
        /\ DictGetItem(wf_results[i][2], "errors", <<"none">>) = << >>

\* cams_parser returns after it parsed and wrote transactions.
C28_Witness ==
    /\ wf_pc = "returned"
    /\ wf_calls = <<"cams_parser">>
    /\ DictGetItem(wf_results[1][2], "status", "") = "success"
    /\ DictGetItem(wf_results[1][2], "rows_written", 0) > 0

=============================================================================
